---- MODULE Spec2Model ----
(***************************************************************************)
(* Sports day tracker (src/src/App.js): the shared document store with its *)
(* three collections (events, participants, scores) and the handlers of    *)
(* the React components that read and write it, run by several callers     *)
(* (devices / sessions) at once.                                           *)
(*                                                                         *)
(* Granularity.  A handler runs without interruption up to its next        *)
(* `await`; every awaited store operation (getDocs, addDoc, updateDoc,     *)
(* deleteDoc) takes effect at the store atomically and the handler's       *)
(* continuation up to the following await belongs to the same step.        *)
(* Snapshot listeners (onSnapshot) deliver the store's contents at some    *)
(* later moment, so a component's local copy may be stale.                 *)
(*                                                                         *)
(* Store semantics are those of firebase/firestore (imported at line 5):   *)
(* addDoc creates a document under a fresh id, updateDoc rejects when the  *)
(* document does not exist, deleteDoc of a missing document resolves, and  *)
(* any operation may reject because the store is unreachable.              *)
(*                                                                         *)
(* Numbers.  A score is a JavaScript number; the model counts it in        *)
(* thousandths (MsPerSecond units per 1), which is exact for the stopwatch *)
(* (milliseconds / 1000) and for typed decimals of up to three places.     *)
(* NaN is a value apart (NaN).  The `timestamp` field of a score (new Date()) *)
(* is not modelled: nothing reads it.                                      *)
(***************************************************************************)
EXTENDS Integers, Sequences, FiniteSets, TLC

VARIABLES
  events,        \* collection sportsday_events: id -> name
  eventTypes,    \* the `type` field of the events: id -> type
  participants,  \* collection sportsday_participants: id -> name
  scoreDocs,     \* collection sportsday_scores: id -> [eventId, participantId, score]
  nextScoreId,   \* the fresh id the next addDoc to sportsday_scores gets
  view,          \* App.currentView of each caller
  se,            \* ScoreEntry component state of each caller
  submit,        \* the running ScoreEntry.handleSubmit of each caller (its closure)
  sw,            \* Stopwatch component state of each caller (score-saving part)
  save,          \* the running Stopwatch.handleSaveScore of each caller
  modal,         \* EventList / ParticipantList modal state of each caller
  del,           \* the running modalAction (cascade delete) of each caller
  pending,       \* deleteDoc calls issued by a cascade's forEach and not awaited
  rejected,      \* history: the rejections of such calls, [by, err], that nothing caught
  os,            \* OverallStandings component state of each caller
  ev,            \* EventScoresView component state of each caller
  form,          \* EventForm / ParticipantForm component state of each caller
  docIds,        \* how many event / participant ids addDoc has handed out
  now            \* Date.now(), in ms

vars == <<events, eventTypes, participants, scoreDocs, nextScoreId, view, se, submit, sw,
          save, modal, del, pending, rejected, os, ev, form, docIds, now>>

\* The components shown by the dashboard and by 'view-event-scores'.
boardVars == <<os, ev>>

\* The forms, the id supply of their addDoc, and the clock.
sideVars == <<form, docIds, now>>

storeVars == <<events, eventTypes, participants, scoreDocs, nextScoreId>>

-----------------------------------------------------------------------------
(* Bounds and the populated store the checks start from.                   *)

Callers == {"c1", "c2"}

\* Fresh score document ids available to addDoc.
MaxScoreDocs == 2

\* Document (id) order of the participants collection, and of names.
ParticipantOrder == <<"p1", "p2", "p3">>
EventOrder == <<"e1", "e2">>
NameOrder == <<"Ann", "Bob">>

\* Names typed into a form: blank, and a name.
TypedNames == {" ", "Bob"}

\* A name typed with blanks around it, where the forms are examined alone.
MoreTypedNames == {" Bob "}

\* Types typed into the event form: blank, and a type.
TypedTypes == {" ", "Track"}

InitEvents == [e \in {"e1"} |-> "Sprint"]
InitParticipants == [p \in {"p1"} |-> "Ann"]

\* Strings the user types into a score input (sequences of characters).
TypedInputs == {<< >>, <<"4">>, <<"a">>}

\* A second number, typed where one caller works alone.
MoreTypedInputs == {<<"2", ".", "5">>}

\* Strings handed to handleScoreChange where its filter is examined.
FilterInputs ==
  {<<"1", "2", ".", "5">>, <<"0">>, << >>, <<"a", "b", "c">>,
   <<"1", ".", "2", ".", "3">>, <<".">>}

\* Elapsed times (ms) a stopwatch run ends with.
ElapsedSamples == {0, 1500}

\* A second time, where one caller saves from the stopwatch alone.
MoreElapsedSamples == {2750}

\* The period of the timer's setInterval, in ms.
SamplingInterval == 10

\* The longest time (ms) between a state change and the run of the timer
\* effect it causes (render, commit, effect flush).
MaxRenderDelay == 1

\* The clock stops at ClockEnd where the buttons are all in use, at DriftEnd
\* where one run is timed, at ResumeEnd where a run is stopped and resumed;
\* at most MaxLaps lap marks are taken.
ClockEnd == 12
DriftEnd == 130
ResumeEnd == 30
MaxLaps == 2

\* elapsedTime / 1000: milliseconds per second.
MsPerSecond == 1000

EmptyMap == [x \in {} |-> 0]

\* The score collections the ranking and the standings are computed from:
\* up to MaxRankedDocs documents, of these events, participants and scores
\* (in thousandths; 0 - 1 is NaN, the score parseFloat(".") gives).
MaxRankedDocs == 3

\* Score documents of a store whose standings are examined row by row.
MaxStandingDocs == 2
RankedEvents == {"e1", "e2"}
RankedParticipants == {"p1", "p2", "p3"}
ScoreSamples == {0 - 1, 1000, 2000}

\* The participants collection the views start from.
BoardParticipants == [p \in {"p1", "p2"} |-> IF p = "p1" THEN "Ann" ELSE "Bob"]

-----------------------------------------------------------------------------
(* Pure helpers.                                                            *)

IndexOf(seq, x) == CHOOSE i \in 1..Len(seq) : seq[i] = x

\* a.name.localeCompare(b.name) < 0, ties kept in snapshot (document) order:
\* Array.prototype.sort is stable.
NameBefore(parts, a, b) ==
  LET ra == IndexOf(NameOrder, parts[a])
      rb == IndexOf(NameOrder, parts[b])
  IN  \/ ra < rb
      \/ ra = rb /\ IndexOf(ParticipantOrder, a) < IndexOf(ParticipantOrder, b)

RECURSIVE SortByName(_, _)
SortByName(parts, ids) ==
  IF ids = {} THEN << >>
  ELSE LET first == CHOOSE a \in ids : \A b \in ids \ {a} : NameBefore(parts, a, b)
       IN  <<first>> \o SortByName(parts, ids \ {first})

\* participantsData of a participants snapshot, sorted by name.
participantsData(parts) == SortByName(parts, DOMAIN parts)

Digits == {"0", "1", "2", "3", "4", "5", "6", "7", "8", "9"}

DigitVal(ch) ==
  CASE ch = "0" -> 0 [] ch = "1" -> 1 [] ch = "2" -> 2 [] ch = "3" -> 3
    [] ch = "4" -> 4 [] ch = "5" -> 5 [] ch = "6" -> 6 [] ch = "7" -> 7
    [] ch = "8" -> 8 [] ch = "9" -> 9

\* Number of consecutive digits of s starting at position from.
RECURSIVE DigitRun(_, _)
DigitRun(s, from) ==
  IF from <= Len(s) /\ s[from] \in Digits THEN 1 + DigitRun(s, from + 1) ELSE 0

\* /^\d*\.?\d*$/.test(value)
MatchesUnsignedDecimal(s) ==
  LET a == DigitRun(s, 1)
      b == IF a < Len(s) /\ s[a + 1] = "." THEN a + 1 ELSE a
      c == DigitRun(s, b + 1)
  IN  b + c = Len(s)

\* value === '' || /^\d*\.?\d*$/.test(value)
AcceptsCandidate(s) == s = << >> \/ MatchesUnsignedDecimal(s)

\* NaN: no score the program computes from digits is negative.
NaN == 0 - 1

RECURSIVE DigitsValue(_, _, _)
DigitsValue(s, from, n) ==
  IF n = 0 THEN 0
  ELSE DigitsValue(s, from, n - 1) * 10 + DigitVal(s[from + n - 1])

\* Value, in thousandths, of up to three fraction digits starting at from.
FractionValue(s, from, n) ==
  LET d(k) == IF k <= n THEN DigitVal(s[from + k - 1]) ELSE 0
  IN  d(1) * 100 + d(2) * 10 + d(3)

\* parseFloat of a string over digits, "." and letters: the longest prefix
\* digits [. digits] is converted, and NaN results when it holds no digit.
parseFloatString(s) ==
  LET a == DigitRun(s, 1)
      dot == a < Len(s) /\ s[a + 1] = "."
      f == IF dot THEN DigitRun(s, a + 2) ELSE 0
  IN  IF a + f = 0 THEN NaN
      ELSE DigitsValue(s, 1, a) * MsPerSecond
           + (IF f > 0 THEN FractionValue(s, a + 2, f) ELSE 0)

\* A value of the local `scores` map: a number copied from a snapshot
\* (data.score) or the string typed into the input.
Num(n) == [t |-> "num", n |-> n]
Str(s) == [t |-> "str", s |-> s]

\* parseFloat(scoreValue): a number is converted to a string and back.
parseFloat(v) == IF v.t = "num" THEN v.n ELSE parseFloatString(v.s)

\* scoreValue !== undefined && scoreValue !== null && scoreValue !== ''
HasCandidate(scores, p) ==
  p \in DOMAIN scores /\ ~(scores[p].t = "str" /\ scores[p].s = << >>)

Pair(docs, e, p) == {d \in DOMAIN docs : docs[d].eventId = e /\ docs[d].participantId = p}

Remove(f, k) == [x \in DOMAIN f \ {k} |-> f[x]]

Min(S) == CHOOSE x \in S : \A y \in S : x <= y
Max(S) == CHOOSE x \in S : \A y \in S : x >= y

-----------------------------------------------------------------------------
(* The store (firebase/firestore).  Each operation yields the error it     *)
(* rejects with ("" when it resolves) and the collection afterwards;       *)
(* `avail` is whether the store could be reached.                          *)

addDoc(docs, id, data, avail) ==
  IF ~avail THEN [err |-> "unavailable", docs |-> docs]
  ELSE [err |-> "", docs |-> (id :> data) @@ docs]

updateDoc(docs, id, data, avail) ==
  IF ~avail THEN [err |-> "unavailable", docs |-> docs]
  ELSE IF id \notin DOMAIN docs THEN [err |-> "not-found", docs |-> docs]
  ELSE [err |-> "", docs |-> [docs EXCEPT ![id] = data]]

deleteDoc(docs, id, avail) ==
  IF ~avail THEN [err |-> "unavailable", docs |-> docs]
  ELSE [err |-> "", docs |-> Remove(docs, id)]

\* The documents of a scores query, where(field, "==", value).
scoresQuery(docs, field, value) ==
  {d \in DOMAIN docs : docs[d][field] = value}

-----------------------------------------------------------------------------
(* Component state at mount, and idle handlers.                             *)

SeMount(e) ==
  [eventId |-> e, loadingParticipants |-> TRUE, participants |-> << >>,
   scores |-> EmptyMap, existingScores |-> EmptyMap, error |-> ""]

\* atStart is history, read by no action: the score documents the store
\* held for the handler's event (pair) when the handler was invoked.
SubmitIdle ==
  [pc |-> "idle", i |-> 0, eventId |-> "", participants |-> << >>,
   scores |-> EmptyMap, existingScores |-> EmptyMap, atStart |-> {}]

\* No user action yet; `last` is history, read by no action: the handler
\* invoked last and the isRunning / laps.length it found.
NoOp == [op |-> "", wasRunning |-> FALSE, hadLaps |-> 0]

\* Stopwatch at mount.  intervalDue is 0 when no interval is set, otherwise
\* the time its callback fires next (intervalRef); effectSince is -1 when
\* the timer effect has run for the state displayed, otherwise the time of
\* the first change of isRunning / elapsedTime it has not yet run for.
\* phase, t0, t1, t2 and frozen are history: "started" after a start as
\* first user action (at t0), "stopped" after a stop as second (at t1),
\* "resumed" after a start as third (at t2, with elapsedTime frozen), and
\* "other" after any further user action.
SwMount ==
  [selectedEvent |-> "", selectedParticipant |-> "", elapsedTime |-> 0,
   saveMessage |-> "", isRunning |-> FALSE, laps |-> << >>, startTimeRef |-> 0,
   intervalDue |-> 0, effectSince |-> 0 - 1, last |-> NoOp,
   phase |-> "idle", t0 |-> 0, t1 |-> 0, t2 |-> 0, frozen |-> 0]

SaveIdle ==
  [pc |-> "idle", eventId |-> "", participantId |-> "", score |-> 0, found |-> 0,
   atStart |-> {}]

NoAction == [kind |-> "null", id |-> ""]

\* modalMessage and modalAction; `subject` is the deletion the message is
\* about (the eventId / participantId of the closure that set it), and
\* `rerun` is history: that run found its parent document already deleted.
ModalClosed ==
  [message |-> "", action |-> NoAction, subject |-> NoAction, rerun |-> FALSE]

\* rerun is history, read by no action: the parent document was already
\* missing when this run's deleteDoc of the parent settled.
DelIdle == [pc |-> "idle", kind |-> "null", id |-> "", rerun |-> FALSE]

\* What a listener has delivered so far: nothing, or the documents of its
\* latest snapshot.
NoSnapshot == [got |-> FALSE, docs |-> EmptyMap]

\* OverallStandings at mount.  inflight holds the listener callbacks that
\* await getDocs(participantsColRef), each with its allScores; `live` tells
\* whether the component instance whose setters the callback holds is still
\* mounted (React drops a state update of an unmounted component).  `from`
\* is history: the snapshot the displayed standings were computed from, and
\* so is `afterCancel`: a callback has called setStandings / setLoading
\* after the cleanup had cancelled its subscription.
OsMount ==
  [standings |-> << >>, loading |-> TRUE, delivered |-> NoSnapshot,
   inflight |-> {}, from |-> EmptyMap, afterCancel |-> FALSE]

\* EventScoresView at mount; fetches holds the `live` flag of every
\* fetchParticipants call that awaits its getDocs.
EvMount(e) ==
  [eventId |-> e, eventScores |-> << >>, participantsMap |-> EmptyMap,
   loading |-> TRUE, delivered |-> NoSnapshot, fetches |-> {}]

\* EventForm / ParticipantForm at mount: kind "event" or "participant", the
\* document being edited ("" when adding), the name typed, the type typed
\* (EventForm only), the error shown.
FormMount(kind, edit, name, type) ==
  [kind |-> kind, edit |-> edit, name |-> name, type |-> type, error |-> "",
   pc |-> "idle"]

FormClosed == FormMount("null", "", "", "")

\* The component is unmounted: its state is gone, and the callbacks it left
\* in flight hold the setters of a dead instance.
OsLeft(o) ==
  [OsMount EXCEPT !.inflight = {[x EXCEPT !.live = FALSE] : x \in o.inflight},
                  !.afterCancel = o.afterCancel]

EvLeft(v) == [EvMount("") EXCEPT !.fetches = IF v.fetches = {} THEN {} ELSE {FALSE}]

InitWith(evs, parts, docs) ==
  /\ events = evs
  /\ eventTypes = [e \in DOMAIN evs |-> "Track"]
  /\ participants = parts
  /\ scoreDocs = docs
  /\ nextScoreId = Cardinality(DOMAIN docs) + 1
  /\ view = [c \in Callers |-> "dashboard"]
  /\ se = [c \in Callers |-> SeMount("")]
  /\ submit = [c \in Callers |-> SubmitIdle]
  /\ sw = [c \in Callers |-> SwMount]
  /\ save = [c \in Callers |-> SaveIdle]
  /\ modal = [c \in Callers |-> ModalClosed]
  /\ del = [c \in Callers |-> DelIdle]
  /\ pending = {}
  /\ rejected = {}
  /\ os = [c \in Callers |-> OsMount]
  /\ ev = [c \in Callers |-> EvMount("")]
  /\ form = [c \in Callers |-> FormClosed]
  /\ docIds = [event |-> Cardinality(DOMAIN evs), participant |-> Cardinality(DOMAIN parts)]
  /\ now = 0

Init ==
  /\ events = InitEvents
  /\ eventTypes = [e \in DOMAIN InitEvents |-> "Track"]
  /\ participants = InitParticipants
  /\ scoreDocs = EmptyMap
  /\ nextScoreId = 1
  /\ view = [c \in Callers |-> "dashboard"]
  /\ se = [c \in Callers |-> SeMount("")]
  /\ submit = [c \in Callers |-> SubmitIdle]
  /\ sw = [c \in Callers |-> SwMount]
  /\ save = [c \in Callers |-> SaveIdle]
  /\ modal = [c \in Callers |-> ModalClosed]
  /\ del = [c \in Callers |-> DelIdle]
  /\ pending = {}
  /\ rejected = {}
  /\ os = [c \in Callers |-> OsMount]
  /\ ev = [c \in Callers |-> EvMount("")]
  /\ form = [c \in Callers |-> FormClosed]
  /\ docIds = [event |-> Cardinality(DOMAIN InitEvents),
            participant |-> Cardinality(DOMAIN InitParticipants)]
  /\ now = 0

\* No handler of caller c is between two awaits.
Quiet(c) ==
  /\ submit[c].pc = "idle"
  /\ save[c].pc = "idle"
  /\ del[c].pc = "idle"
  /\ \A x \in pending : x.by # c

-----------------------------------------------------------------------------
(* App.handleViewChange: one component is mounted at a time.  A caller      *)
(* changes view only while none of its own handlers is in flight (other    *)
(* callers supply the concurrency).                                        *)

\* EventList "Add Score" button: onViewChange('add-score', {id, name}).
onAddScore(c, e) ==
  /\ view[c] = "dashboard"
  /\ Quiet(c)
  /\ e \in DOMAIN events
  /\ view' = [view EXCEPT ![c] = "add-score"]
  /\ se' = [se EXCEPT ![c] = SeMount(e)]
  /\ modal' = [modal EXCEPT ![c] = ModalClosed]
  /\ os' = [os EXCEPT ![c] = OsLeft(os[c])]
  /\ UNCHANGED <<ev, sideVars>>
  /\ UNCHANGED <<storeVars, submit, sw, save, del, pending, rejected>>

\* Dashboard "Stopwatch" button: onViewChange('stopwatch').
onStopwatch(c) ==
  /\ view[c] = "dashboard"
  /\ Quiet(c)
  /\ view' = [view EXCEPT ![c] = "stopwatch"]
  /\ sw' = [sw EXCEPT ![c] = SwMount]
  /\ modal' = [modal EXCEPT ![c] = ModalClosed]
  /\ os' = [os EXCEPT ![c] = OsLeft(os[c])]
  /\ UNCHANGED <<ev, sideVars>>
  /\ UNCHANGED <<storeVars, se, submit, save, del, pending, rejected>>

\* onCancel / onBack: onViewChange('dashboard') unmounts the component.
onBack(c) ==
  /\ view[c] \in {"add-score", "stopwatch"}
  /\ Quiet(c)
  /\ view' = [view EXCEPT ![c] = "dashboard"]
  /\ se' = [se EXCEPT ![c] = SeMount("")]
  /\ sw' = [sw EXCEPT ![c] = SwMount]
  /\ UNCHANGED <<boardVars, sideVars>>
  /\ UNCHANGED <<storeVars, submit, save, modal, del, pending, rejected>>

-----------------------------------------------------------------------------
(* ScoreEntry.                                                              *)

\* The participants listener: sorted snapshot, loading flag cleared.
participantsSnapshot(c) ==
  /\ view[c] = "add-score"
  /\ se' = [se EXCEPT ![c].participants = participantsData(participants),
                      ![c].loadingParticipants = FALSE]
  /\ UNCHANGED <<boardVars, sideVars>>
  /\ UNCHANGED <<storeVars, view, submit, sw, save, modal, del, pending, rejected>>

\* currentScores / currentExistingScores of a scores snapshot for event e:
\* documents are visited in document order, a later one overwriting.
currentScores(docs, e) ==
  LET ps == {docs[d].participantId : d \in scoresQuery(docs, "eventId", e)}
  IN  [p \in ps |-> Num(docs[Max(Pair(docs, e, p))].score)]

currentExistingScores(docs, e) ==
  LET ps == {docs[d].participantId : d \in scoresQuery(docs, "eventId", e)}
  IN  [p \in ps |-> Max(Pair(docs, e, p))]

\* A scores listener that keeps the local candidates the snapshot does not
\* overwrite.
scoresSnapshotMerges(c) ==
  /\ view[c] = "add-score"
  /\ se' = [se EXCEPT ![c].scores = currentScores(scoreDocs, se[c].eventId) @@ se[c].scores,
                      ![c].existingScores = currentExistingScores(scoreDocs, se[c].eventId)]
  /\ UNCHANGED <<boardVars, sideVars>>
  /\ UNCHANGED <<storeVars, view, submit, sw, save, modal, del, pending, rejected>>

\* The scores listener of ScoreEntry: both local maps are replaced.
scoresSnapshot(c) ==
  /\ view[c] = "add-score"
  /\ se' = [se EXCEPT ![c].scores = currentScores(scoreDocs, se[c].eventId),
                      ![c].existingScores = currentExistingScores(scoreDocs, se[c].eventId)]
  /\ UNCHANGED <<boardVars, sideVars>>
  /\ UNCHANGED <<storeVars, view, submit, sw, save, modal, del, pending, rejected>>

\* The form is rendered: participants loaded and not empty.
FormShown(c) ==
  /\ view[c] = "add-score"
  /\ ~se[c].loadingParticipants
  /\ Len(se[c].participants) > 0

handleScoreChange(c, p, value) ==
  /\ FormShown(c)
  /\ submit[c].pc = "idle"
  /\ \E i \in 1..Len(se[c].participants) : se[c].participants[i] = p
  /\ se' = IF AcceptsCandidate(value)
           THEN [se EXCEPT ![c].scores = (p :> Str(value)) @@ se[c].scores]
           ELSE se
  /\ UNCHANGED <<boardVars, sideVars>>
  /\ UNCHANGED <<storeVars, view, submit, sw, save, modal, del, pending, rejected>>

\* handleSubmit up to its loop: the error is cleared and the closure holds
\* the participants, scores and existingScores of the current render.
handleSubmit(c) ==
  /\ FormShown(c)
  /\ submit[c].pc = "idle"
  /\ se' = [se EXCEPT ![c].error = ""]
  /\ submit' = [submit EXCEPT ![c] =
                  [pc |-> "run", i |-> 1, eventId |-> se[c].eventId,
                   participants |-> se[c].participants,
                   scores |-> se[c].scores,
                   existingScores |-> se[c].existingScores,
                   atStart |-> scoresQuery(scoreDocs, "eventId", se[c].eventId)]]
  /\ UNCHANGED <<boardVars, sideVars>>
  /\ UNCHANGED <<storeVars, view, sw, save, modal, del, pending, rejected>>

\* scoreBranch without the test `scoreValue !== ''`.
scoreBranchNoEmptyTest(scores, existingScores, p) ==
  IF p \in DOMAIN scores
  THEN IF p \in DOMAIN existingScores THEN "update" ELSE "add"
  ELSE IF p \in DOMAIN existingScores THEN "delete" ELSE "none"

\* The branch the loop body takes for participant p (lines 599, 607, 614).
scoreBranch(scores, existingScores, p) ==
  IF HasCandidate(scores, p)
  THEN IF p \in DOMAIN existingScores THEN "update" ELSE "add"
  ELSE IF p \in DOMAIN existingScores THEN "delete" ELSE "none"

\* scoreData of the loop body.
scoreData(e, p, v) == [eventId |-> e, participantId |-> p, score |-> parseFloat(v)]

\* An iteration whose failure is shown while the loop goes on with the next
\* participant.
submitIterationGoesOn(c) ==
  /\ submit[c].pc = "run"
  /\ submit[c].i <= Len(submit[c].participants)
  /\ LET s == submit[c]
         p == s.participants[s.i]
         b == scoreBranch(s.scores, s.existingScores, p)
     IN  /\ b = "add" => nextScoreId <= MaxScoreDocs
         /\ \E avail \in BOOLEAN :
              LET r == CASE b = "update" ->
                              updateDoc(scoreDocs, s.existingScores[p],
                                        scoreData(s.eventId, p, s.scores[p]), avail)
                         [] b = "add" ->
                              addDoc(scoreDocs, nextScoreId,
                                     scoreData(s.eventId, p, s.scores[p]), avail)
                         [] b = "delete" ->
                              deleteDoc(scoreDocs, s.existingScores[p], avail)
                         [] OTHER -> [err |-> "", docs |-> scoreDocs]
              IN  /\ b = "none" => avail
                  /\ scoreDocs' = r.docs
                  /\ nextScoreId' = IF b = "add" /\ r.err = ""
                                    THEN nextScoreId + 1 ELSE nextScoreId
                  /\ IF r.err = ""
                     THEN /\ submit' = [submit EXCEPT ![c].i = s.i + 1]
                          /\ se' = se
                     ELSE /\ submit' = [submit EXCEPT ![c].i = s.i + 1]
                          /\ se' = [se EXCEPT ![c].error = r.err]
  /\ UNCHANGED <<boardVars, sideVars>>
  /\ UNCHANGED <<events, eventTypes, participants, view, sw, save, modal, del, pending, rejected>>

\* One iteration of the loop of handleSubmit: the store operation of the
\* participant at index i, then the next iteration or the catch block.
submitIteration(c) ==
  /\ submit[c].pc = "run"
  /\ submit[c].i <= Len(submit[c].participants)
  /\ LET s == submit[c]
         p == s.participants[s.i]
         b == scoreBranch(s.scores, s.existingScores, p)
     IN  /\ b = "add" => nextScoreId <= MaxScoreDocs
         /\ \E avail \in BOOLEAN :
              LET r == CASE b = "update" ->
                              updateDoc(scoreDocs, s.existingScores[p],
                                        scoreData(s.eventId, p, s.scores[p]), avail)
                         [] b = "add" ->
                              addDoc(scoreDocs, nextScoreId,
                                     scoreData(s.eventId, p, s.scores[p]), avail)
                         [] b = "delete" ->
                              deleteDoc(scoreDocs, s.existingScores[p], avail)
                         [] OTHER -> [err |-> "", docs |-> scoreDocs]
              IN  /\ b = "none" => avail
                  /\ scoreDocs' = r.docs
                  /\ nextScoreId' = IF b = "add" /\ r.err = ""
                                    THEN nextScoreId + 1 ELSE nextScoreId
                  /\ IF r.err = ""
                     THEN /\ submit' = [submit EXCEPT ![c].i = s.i + 1]
                          /\ se' = se
                     ELSE /\ submit' = [submit EXCEPT ![c] = SubmitIdle]
                          /\ se' = [se EXCEPT ![c].error = r.err]
  /\ UNCHANGED <<boardVars, sideVars>>
  /\ UNCHANGED <<events, eventTypes, participants, view, sw, save, modal, del, pending, rejected>>

\* The loop is over: onSave() returns to the dashboard.
submitDone(c) ==
  /\ submit[c].pc = "run"
  /\ submit[c].i > Len(submit[c].participants)
  /\ submit' = [submit EXCEPT ![c] = SubmitIdle]
  /\ view' = [view EXCEPT ![c] = "dashboard"]
  /\ se' = [se EXCEPT ![c] = SeMount("")]
  /\ UNCHANGED <<boardVars, sideVars>>
  /\ UNCHANGED <<storeVars, sw, save, modal, del, pending, rejected>>

-----------------------------------------------------------------------------
(* Stopwatch: the score-saving part.  The timer itself is summarised by    *)
(* stopwatchRun, a start followed by a stop that leaves elapsedTime.       *)

stopwatchRun(c, ms) ==
  /\ view[c] = "stopwatch"
  /\ save[c].pc = "idle"
  /\ sw' = [sw EXCEPT ![c].elapsedTime = ms, ![c].saveMessage = ""]
  /\ UNCHANGED <<boardVars, sideVars>>
  /\ UNCHANGED <<storeVars, view, se, submit, save, modal, del, pending, rejected>>

\* The event <select>: its options are the events of the listener's snapshot.
setSelectedEvent(c, e) ==
  /\ view[c] = "stopwatch"
  /\ save[c].pc = "idle"
  /\ e \in DOMAIN events
  /\ sw' = [sw EXCEPT ![c].selectedEvent = e]
  /\ UNCHANGED <<boardVars, sideVars>>
  /\ UNCHANGED <<storeVars, view, se, submit, save, modal, del, pending, rejected>>

setSelectedParticipant(c, p) ==
  /\ view[c] = "stopwatch"
  /\ save[c].pc = "idle"
  /\ p \in DOMAIN participants
  /\ sw' = [sw EXCEPT ![c].selectedParticipant = p]
  /\ UNCHANGED <<boardVars, sideVars>>
  /\ UNCHANGED <<storeVars, view, se, submit, save, modal, del, pending, rejected>>

\* elapsedTime / 1000, counted in thousandths.
scoreInSeconds(elapsedTime) == (elapsedTime * 1000) \div MsPerSecond

\* handleSaveScore up to `await getDocs(q)`.
handleSaveScore(c) ==
  /\ view[c] = "stopwatch"
  /\ save[c].pc = "idle"
  /\ IF sw[c].selectedEvent = "" \/ sw[c].selectedParticipant = ""
     THEN /\ sw' = [sw EXCEPT ![c].saveMessage = "select"]
          /\ save' = save
     ELSE IF sw[c].elapsedTime = 0
     THEN /\ sw' = [sw EXCEPT ![c].saveMessage = "zero"]
          /\ save' = save
     ELSE /\ sw' = sw
          /\ save' = [save EXCEPT ![c] =
                        [pc |-> "query", eventId |-> sw[c].selectedEvent,
                         participantId |-> sw[c].selectedParticipant,
                         score |-> scoreInSeconds(sw[c].elapsedTime), found |-> 0,
                         atStart |-> Pair(scoreDocs, sw[c].selectedEvent,
                                          sw[c].selectedParticipant)]]
  /\ UNCHANGED <<boardVars, sideVars>>
  /\ UNCHANGED <<storeVars, view, se, submit, modal, del, pending, rejected>>

\* A lookup that finds nothing.
existingScoresDocNone(docs, e, p) == 0

\* existingScores.docs of the query on (eventId, participantId); 0 stands
\* for an empty result, otherwise docs[0].id, the first in document order.
existingScoresDoc(docs, e, p) ==
  LET found == scoresQuery(docs, "eventId", e) \cap scoresQuery(docs, "participantId", p)
  IN  IF found = {} THEN 0 ELSE Min(found)

\* getDocs(q) settles: the lookup result is kept for the write.
saveQuery(c) ==
  /\ save[c].pc = "query"
  /\ \E avail \in BOOLEAN :
       IF avail
       THEN /\ save' = [save EXCEPT ![c].pc = "write",
                          ![c].found = existingScoresDoc(scoreDocs, save[c].eventId,
                                                         save[c].participantId)]
            /\ sw' = sw
       ELSE /\ save' = [save EXCEPT ![c] = SaveIdle]
            /\ sw' = [sw EXCEPT ![c].saveMessage = "unavailable"]
  /\ UNCHANGED <<boardVars, sideVars>>
  /\ UNCHANGED <<storeVars, view, se, submit, modal, del, pending, rejected>>

\* updateDoc / addDoc settles and the message is set.
saveWrite(c) ==
  /\ save[c].pc = "write"
  /\ save[c].found = 0 => nextScoreId <= MaxScoreDocs
  /\ \E avail \in BOOLEAN :
       LET s == save[c]
           data == [eventId |-> s.eventId, participantId |-> s.participantId,
                    score |-> s.score]
           r == IF s.found # 0 THEN updateDoc(scoreDocs, s.found, data, avail)
                ELSE addDoc(scoreDocs, nextScoreId, data, avail)
       IN  /\ scoreDocs' = r.docs
           /\ nextScoreId' = IF s.found = 0 /\ r.err = ""
                             THEN nextScoreId + 1 ELSE nextScoreId
           /\ sw' = [sw EXCEPT ![c].saveMessage =
                       IF r.err # "" THEN r.err
                       ELSE IF s.found # 0 THEN "updated" ELSE "saved"]
           /\ save' = [save EXCEPT ![c] = SaveIdle]
  /\ UNCHANGED <<boardVars, sideVars>>
  /\ UNCHANGED <<events, eventTypes, participants, view, se, submit, modal, del, pending, rejected>>

-----------------------------------------------------------------------------
(* Stopwatch: the timer.  A handler's state changes are displayed at once; *)
(* the timer effect they cause runs up to MaxRenderDelay later, and at the *)
(* latest before the next change of state is rendered.                     *)

\* The effect is due from the first change of one of its dependencies.
EffectDue(w, isRunning, elapsedTime) ==
  IF w.effectSince # 0 - 1 THEN w.effectSince
  ELSE IF isRunning # w.isRunning \/ elapsedTime # w.elapsedTime THEN now
  ELSE 0 - 1

\* An effect run that adds elapsedTime where the body subtracts it.
EffectRunReferenceAhead(w) ==
  [w EXCEPT !.startTimeRef = IF w.isRunning THEN now + w.elapsedTime ELSE @,
            !.intervalDue = IF w.isRunning THEN now + SamplingInterval ELSE 0,
            !.effectSince = 0 - 1]

\* An effect run that records the start reference of the first start only.
EffectRunFirstStartOnly(w) ==
  [w EXCEPT !.startTimeRef = IF w.isRunning /\ w.elapsedTime = 0 THEN now ELSE @,
            !.intervalDue = IF w.isRunning THEN now + SamplingInterval ELSE 0,
            !.effectSince = 0 - 1]

\* A run of the timer effect: the cleanup of its last run clears the
\* interval, then the body sets the start reference and a new interval, or
\* clears.
EffectRun(w) ==
  [w EXCEPT !.startTimeRef = IF w.isRunning THEN now - w.elapsedTime ELSE @,
            !.intervalDue = IF w.isRunning THEN now + SamplingInterval ELSE 0,
            !.effectSince = 0 - 1]

\* An effect run is pending and the setters change the state: the pending
\* run takes place before the new state is rendered.
Flushes(w, isRunning, elapsedTime, laps, saveMessage) ==
  /\ w.effectSince # 0 - 1
  /\ <<isRunning, elapsedTime, laps, saveMessage>>
       # <<w.isRunning, w.elapsedTime, w.laps, w.saveMessage>>

\* The state after the setters of a handler or callback.
Update(w, isRunning, elapsedTime, laps, saveMessage) ==
  LET f == IF Flushes(w, isRunning, elapsedTime, laps, saveMessage)
           THEN EffectRun(w) ELSE w
  IN  [f EXCEPT !.isRunning = isRunning,
                !.elapsedTime = elapsedTime,
                !.laps = laps,
                !.saveMessage = saveMessage,
                !.effectSince = EffectDue(f, isRunning, elapsedTime)]

Called(w, op) == [op |-> op, wasRunning |-> w.isRunning, hadLaps |-> Len(w.laps)]

\* The history of a user action that is no part of a timed run: u is the
\* state after the handler's setters, w the state it was invoked in.
Untimed(u, w, op) ==
  [u EXCEPT !.last = Called(w, op), !.phase = "other", !.t2 = 0, !.frozen = 0]

timerFrame ==
  /\ UNCHANGED <<boardVars, sideVars>>
  /\ UNCHANGED <<storeVars, view, se, submit, save, modal, del, pending, rejected>>

\* The Start button, shown while not running.
startStopwatch(c) ==
  /\ view[c] = "stopwatch"
  /\ ~sw[c].isRunning
  /\ LET w == sw[c]
         u == Update(w, TRUE, w.elapsedTime, w.laps, "")
     IN  sw' = [sw EXCEPT ![c] =
                  IF w.phase = "idle"
                  THEN [u EXCEPT !.last = Called(w, "start"), !.phase = "started",
                                 !.t0 = now]
                  ELSE IF w.phase = "stopped"
                  THEN [u EXCEPT !.last = Called(w, "start"), !.phase = "resumed",
                                 !.t2 = now, !.frozen = w.elapsedTime]
                  ELSE Untimed(u, w, "start")]
  /\ timerFrame

\* The Stop button, shown while running.
stopStopwatch(c) ==
  /\ view[c] = "stopwatch"
  /\ sw[c].isRunning
  /\ LET w == sw[c]
         u == Update(w, FALSE, w.elapsedTime, w.laps, w.saveMessage)
     IN  sw' = [sw EXCEPT ![c] =
                  IF w.phase = "started"
                  THEN [u EXCEPT !.last = Called(w, "stop"), !.phase = "stopped",
                                 !.t1 = now]
                  ELSE Untimed(u, w, "stop")]
  /\ timerFrame

\* A reset that leaves the lap list alone.
resetStopwatchKeepsLaps(c) ==
  /\ view[c] = "stopwatch"
  /\ sw' = [sw EXCEPT ![c] =
              Untimed(Update(sw[c], FALSE, 0, sw[c].laps, ""), sw[c], "reset")]
  /\ timerFrame

resetStopwatch(c) ==
  /\ view[c] = "stopwatch"
  /\ sw' = [sw EXCEPT ![c] =
              Untimed(Update(sw[c], FALSE, 0, << >>, ""), sw[c], "reset")]
  /\ timerFrame

\* A lap handler that puts the new mark in front.
lapStopwatchPrepends(c) ==
  /\ view[c] = "stopwatch"
  /\ Len(sw[c].laps) < MaxLaps
  /\ LET w == sw[c]
     IN  sw' = [sw EXCEPT ![c] =
                  Untimed(Update(w, w.isRunning, w.elapsedTime,
                                 IF w.isRunning THEN <<w.elapsedTime>> \o w.laps
                                 ELSE w.laps,
                                 w.saveMessage),
                          w, "lap")]
  /\ timerFrame

\* A lap handler without the isRunning test.
lapStopwatchAnyState(c) ==
  /\ view[c] = "stopwatch"
  /\ Len(sw[c].laps) < MaxLaps
  /\ LET w == sw[c]
     IN  sw' = [sw EXCEPT ![c] =
                  Untimed(Update(w, w.isRunning, w.elapsedTime,
                                 Append(w.laps, w.elapsedTime), w.saveMessage),
                          w, "lap")]
  /\ timerFrame

\* The handler itself; its button is disabled while not running.
lapStopwatch(c) ==
  /\ view[c] = "stopwatch"
  /\ Len(sw[c].laps) < MaxLaps
  /\ LET w == sw[c]
     IN  sw' = [sw EXCEPT ![c] =
                  Untimed(Update(w, w.isRunning, w.elapsedTime,
                                 IF w.isRunning THEN Append(w.laps, w.elapsedTime)
                                 ELSE w.laps,
                                 w.saveMessage),
                          w, "lap")]
  /\ timerFrame

\* The interval callback: setElapsedTime(Date.now() - startTimeRef.current).
\* The interval fires again a period later, unless a pending effect run has
\* taken place before the sample is rendered.
intervalCallback(c) ==
  /\ view[c] = "stopwatch"
  /\ sw[c].intervalDue # 0
  /\ now >= sw[c].intervalDue
  /\ LET w == sw[c]
         sample == now - w.startTimeRef
         u == Update(w, w.isRunning, sample, w.laps, w.saveMessage)
     IN  sw' = [sw EXCEPT ![c] =
                  IF Flushes(w, w.isRunning, sample, w.laps, w.saveMessage)
                  THEN u
                  ELSE [u EXCEPT !.intervalDue = w.intervalDue + SamplingInterval]]
  /\ timerFrame

\* The timer effect re-runs.
timerEffect(c) ==
  /\ view[c] = "stopwatch"
  /\ sw[c].effectSince # 0 - 1
  /\ sw' = [sw EXCEPT ![c] = EffectRun(sw[c])]
  /\ timerFrame

\* Date.now() advances by a millisecond, up to `end`: no interval callback
\* is late and no effect is later than MaxRenderDelay.  Time that passes
\* while no stopwatch runs only moves the origin of the clock, and is left
\* out.
clockAdvance(end) ==
  /\ now < end
  /\ \E c \in Callers :
       sw[c].isRunning \/ sw[c].intervalDue # 0 \/ sw[c].effectSince # 0 - 1
  /\ \A c \in Callers :
       /\ sw[c].intervalDue # 0 => now < sw[c].intervalDue
       /\ sw[c].effectSince # 0 - 1 => now < sw[c].effectSince + MaxRenderDelay
  /\ now' = now + 1
  /\ UNCHANGED <<boardVars, form, docIds>>
  /\ UNCHANGED <<storeVars, view, se, submit, sw, save, modal, del, pending, rejected>>

\* Date.now() advances by a millisecond while no stopwatch runs and no
\* interval or effect run is pending.
clockIdle(end) ==
  /\ now < end
  /\ \A c \in Callers :
       ~sw[c].isRunning /\ sw[c].intervalDue = 0 /\ sw[c].effectSince = 0 - 1
  /\ \E c \in Callers : sw[c].phase = "stopped"
  /\ now' = now + 1
  /\ UNCHANGED <<boardVars, form, docIds>>
  /\ UNCHANGED <<storeVars, view, se, submit, sw, save, modal, del, pending, rejected>>

-----------------------------------------------------------------------------
(* EventList / ParticipantList: the confirmation modal and the cascade.    *)
(* kind is "event" (handleDeleteEvent) or "participant"                    *)
(* (handleDeleteParticipant); the two handlers differ in nothing else.     *)
(* A caller runs one cascade at a time.                                    *)

Kinds == {"event", "participant"}

Listed(kind) == IF kind = "event" THEN DOMAIN events ELSE DOMAIN participants

\* The collection that holds the documents of this kind.
Collection(kind) == IF kind = "event" THEN events ELSE participants

\* The field of a score that refers to a document of this kind.
RefField(kind) == IF kind = "event" THEN "eventId" ELSE "participantId"

\* A delete button that issues the deleteDoc of the parent without waiting
\* for the modal.
handleDeleteAtOnce(c, kind, id) ==
  /\ view[c] = "dashboard"
  /\ Quiet(c)
  /\ id \in Listed(kind)
  /\ modal' = [modal EXCEPT ![c] = ModalClosed]
  /\ del' = [del EXCEPT ![c] = [pc |-> "parent", kind |-> kind, id |-> id,
                                 rerun |-> FALSE]]
  /\ UNCHANGED <<boardVars, sideVars>>
  /\ UNCHANGED <<storeVars, view, se, submit, sw, save, pending, rejected>>

\* handleDeleteEvent / handleDeleteParticipant: only the modal is set up.
handleDelete(c, kind, id) ==
  /\ view[c] = "dashboard"
  /\ Quiet(c)
  /\ id \in Listed(kind)
  /\ modal' = [modal EXCEPT ![c] = [message |-> "confirm",
                                    action |-> [kind |-> kind, id |-> id],
                                    subject |-> [kind |-> kind, id |-> id],
                                    rerun |-> FALSE]]
  /\ UNCHANGED <<boardVars, sideVars>>
  /\ UNCHANGED <<storeVars, view, se, submit, sw, save, del, pending, rejected>>

closeModal(c) ==
  /\ view[c] = "dashboard"
  /\ modal[c].message # ""
  /\ modal' = [modal EXCEPT ![c] = ModalClosed]
  /\ UNCHANGED <<boardVars, sideVars>>
  /\ UNCHANGED <<storeVars, view, se, submit, sw, save, del, pending, rejected>>

\* confirmModal: modalAction() runs up to its first await (the deleteDoc of
\* the parent is issued), then closeModal().
confirmModal(c) ==
  /\ view[c] = "dashboard"
  /\ modal[c].message # ""
  /\ del[c].pc = "idle"
  /\ IF modal[c].action # NoAction
     THEN /\ del' = [del EXCEPT ![c] = [pc |-> "parent", kind |-> modal[c].action.kind,
                                        id |-> modal[c].action.id, rerun |-> FALSE]]
          /\ rejected' = {x \in rejected : x.by # c}
     ELSE UNCHANGED <<del, rejected>>
  /\ modal' = [modal EXCEPT ![c] = ModalClosed]
  /\ UNCHANGED <<boardVars, sideVars>>
  /\ UNCHANGED <<storeVars, view, se, submit, sw, save, pending>>

\* setModalMessage(...); setModalAction(null) at the end of a modalAction.
Report(message, d) ==
  [message |-> message, action |-> NoAction, subject |-> [kind |-> d.kind, id |-> d.id],
   rerun |-> d.rerun]

\* cascadeParent with a parent delete that rejects when the document is
\* missing, as an updateDoc would.
cascadeParentStrict(c) ==
  /\ del[c].pc = "parent"
  /\ \E avail \in BOOLEAN :
       LET d == del[c]
           coll == Collection(d.kind)
           r == IF avail /\ d.id \notin DOMAIN coll
                THEN [err |-> "not-found", docs |-> coll]
                ELSE deleteDoc(coll, d.id, avail)
       IN  /\ events' = IF d.kind = "event" THEN r.docs ELSE events
           /\ eventTypes' = IF d.kind = "event" /\ r.err = ""
                            THEN Remove(eventTypes, d.id) ELSE eventTypes
           /\ participants' = IF d.kind = "participant" THEN r.docs ELSE participants
           /\ IF r.err = ""
              THEN /\ del' = [del EXCEPT ![c].pc = "query",
                                         ![c].rerun = d.id \notin DOMAIN Collection(d.kind)]
                   /\ modal' = modal
              ELSE /\ del' = [del EXCEPT ![c] = DelIdle]
                   /\ modal' = [modal EXCEPT ![c] = Report(r.err, d)]
  /\ UNCHANGED <<boardVars, sideVars>>
  /\ UNCHANGED <<scoreDocs, nextScoreId, view, se, submit, sw, save, pending, rejected>>

\* deleteDoc of the parent settles; on success getDocs(scoresQuery) is issued.
cascadeParent(c) ==
  /\ del[c].pc = "parent"
  /\ \E avail \in BOOLEAN :
       LET d == del[c]
           r == deleteDoc(Collection(d.kind), d.id, avail)
       IN  /\ events' = IF d.kind = "event" THEN r.docs ELSE events
           /\ eventTypes' = IF d.kind = "event" /\ r.err = ""
                            THEN Remove(eventTypes, d.id) ELSE eventTypes
           /\ participants' = IF d.kind = "participant" THEN r.docs ELSE participants
           /\ IF r.err = ""
              THEN /\ del' = [del EXCEPT ![c].pc = "query",
                                         ![c].rerun = d.id \notin DOMAIN Collection(d.kind)]
                   /\ modal' = modal
              ELSE /\ del' = [del EXCEPT ![c] = DelIdle]
                   /\ modal' = [modal EXCEPT ![c] = Report(r.err, d)]
  /\ UNCHANGED <<boardVars, sideVars>>
  /\ UNCHANGED <<scoreDocs, nextScoreId, view, se, submit, sw, save, pending, rejected>>

\* getDocs settles: forEach starts one async callback per score, each
\* issuing its deleteDoc and suspending; none is awaited, and the success
\* message is set at once.
cascadeQuery(c) ==
  /\ del[c].pc = "query"
  /\ \E avail \in BOOLEAN :
       IF avail
       THEN /\ pending' = pending \cup
                 {[by |-> c, id |-> d] :
                    d \in scoresQuery(scoreDocs, RefField(del[c].kind), del[c].id)}
            /\ modal' = [modal EXCEPT ![c] = Report("success", del[c])]
       ELSE /\ pending' = pending
            /\ modal' = [modal EXCEPT ![c] = Report("unavailable", del[c])]
  /\ del' = [del EXCEPT ![c] = DelIdle]
  /\ UNCHANGED <<boardVars, sideVars>>
  /\ UNCHANGED <<storeVars, view, se, submit, sw, save, rejected>>

\* A deleteDoc issued by forEach settles.  Its rejection is caught by
\* nothing: the async callback's promise is dropped by forEach.
dependentDelete(x) ==
  /\ x \in pending
  /\ \E avail \in BOOLEAN :
       LET r == deleteDoc(scoreDocs, x.id, avail)
       IN  /\ scoreDocs' = r.docs
           /\ rejected' = IF r.err = "" THEN rejected
                           ELSE rejected \cup {[by |-> x.by, err |-> r.err]}
  /\ pending' = pending \ {x}
  /\ UNCHANGED <<boardVars, sideVars>>
  /\ UNCHANGED <<events, eventTypes, participants, nextScoreId, view, se, submit, sw, save, modal, del>>

-----------------------------------------------------------------------------
(* Array.prototype.sort with the comparator (a, b) => b.key - a.key, and   *)
(* the aggregation of OverallStandings.                                     *)

\* b - a of two numbers (NaN when either is NaN).
Minus(b, a) == IF a = NaN \/ b = NaN THEN NaN ELSE b - a

\* a + b of two numbers.
Plus(a, b) == IF a = NaN \/ b = NaN THEN NaN ELSE a + b

\* The comparator's verdict as sort reads it: a NaN result counts as +0.
\* Positive: a is to come after b.
ComparatorDescending(a, b) == IF Minus(b, a) = NaN THEN 0 ELSE Minus(b, a)

\* Where the stable insertion of key x into the ordered prefix s (indices
\* into keys) ends: x moves left past every element that is to come after it.
RECURSIVE InsertPos(_, _, _, _)
InsertPos(keys, s, x, j) ==
  IF j >= 1 /\ ComparatorDescending(keys[s[j]], x) > 0
  THEN InsertPos(keys, s, x, j - 1) ELSE j

\* The order sort gives the first n elements of keys: a sequence of indices.
\* For a consistent comparator it is the one stable order; the insertion
\* order is what the engines compute on short arrays when NaN makes the
\* comparator inconsistent.
RECURSIVE sortOrder(_, _)
sortOrder(keys, n) ==
  IF n = 0 THEN << >>
  ELSE LET s == sortOrder(keys, n - 1)
           j == InsertPos(keys, s, keys[n], n - 1)
       IN  SubSeq(s, 1, j) \o <<n>> \o SubSeq(s, j + 1, n - 1)

\* snapshot.docs: the documents in document (id) order.
RECURSIVE snapshotDocs(_)
snapshotDocs(docs) ==
  IF DOMAIN docs = {} THEN << >>
  ELSE LET d == Max(DOMAIN docs)
       IN  Append(snapshotDocs(Remove(docs, d)),
                  [id |-> d, eventId |-> docs[d].eventId,
                   participantId |-> docs[d].participantId, score |-> docs[d].score])

\* The documents of the query where("eventId", "==", e).
eventQuery(docs, e) == [d \in scoresQuery(docs, "eventId", e) |-> docs[d]]

\* scoresData after scoresData.sort((a, b) => b.score - a.score).
scoresData(docs) ==
  LET all == snapshotDocs(docs)
      order == sortOrder([i \in 1..Len(all) |-> all[i].score], Len(all))
  IN  [i \in 1..Len(all) |-> all[order[i]]]

\* if (participantScores[id]): a total of 0 or NaN is falsy.
Truthy(n) == n # 0 /\ n # NaN

\* participantScores after the first n scores of allScores: the keys in
\* insertion order and the total of each.
RECURSIVE participantScores(_, _)
participantScores(allScores, n) ==
  IF n = 0 THEN [keys |-> << >>, total |-> EmptyMap]
  ELSE LET t == participantScores(allScores, n - 1)
           p == allScores[n].participantId
       IN  IF p \in DOMAIN t.total /\ Truthy(t.total[p])
           THEN [keys |-> t.keys,
                 total |-> [t.total EXCEPT ![p] = Plus(@, allScores[n].score)]]
           ELSE [keys |-> IF p \in DOMAIN t.total THEN t.keys ELSE Append(t.keys, p),
                 total |-> (p :> allScores[n].score) @@ t.total]

\* A lookup of the name that leaves a missing one blank.
nameOrBlank(participantsMap, p) ==
  IF p \in DOMAIN participantsMap THEN participantsMap[p] ELSE ""

\* participantsMap[participantId]?.name || 'Unknown'
nameOrUnknown(participantsMap, p) ==
  IF p \in DOMAIN participantsMap /\ participantsMap[p] # ""
  THEN participantsMap[p] ELSE "Unknown"

\* The house of a stored participant: the forms of the model leave it as it
\* is, one participant has a house and the others have none ('').
houseData(p) == IF p = "p1" THEN "Red" ELSE ""

\* participantsMap[participantId]?.house || 'N/A'
houseOrNA(participantsMap, p) ==
  IF p \in DOMAIN participantsMap /\ houseData(p) # ""
  THEN houseData(p) ELSE "N/A"

\* calculatedStandings, sorted by totalScore (highest first).
calculatedStandings(docs, participantsMap) ==
  LET all == snapshotDocs(docs)
      t == participantScores(all, Len(all))
      rows == [i \in 1..Len(t.keys) |->
                 [participantId |-> t.keys[i],
                  name |-> nameOrUnknown(participantsMap, t.keys[i]),
                  house |-> houseOrNA(participantsMap, t.keys[i]),
                  totalScore |-> t.total[t.keys[i]]]]
      order == sortOrder([i \in 1..Len(rows) |-> rows[i].totalScore], Len(rows))
  IN  [i \in 1..Len(rows) |-> rows[order[i]]]

\* The Rank column of the row at (0-based) index: index + 1.
rankShown(index) == index + 1

-----------------------------------------------------------------------------
(* OverallStandings (shown by the dashboard).                               *)

\* The scores listener fires: at first, and whenever the collection differs
\* from the snapshot delivered last.  The async callback takes allScores
\* and suspends at `await getDocs(participantsColRef)`.
standingsSnapshot(c) ==
  /\ view[c] = "dashboard"
  /\ ~os[c].delivered.got \/ os[c].delivered.docs # scoreDocs
  /\ os' = [os EXCEPT ![c].delivered = [got |-> TRUE, docs |-> scoreDocs],
                      ![c].inflight = @ \cup {[allScores |-> scoreDocs, live |-> TRUE]}]
  /\ UNCHANGED <<ev, sideVars>>
  /\ UNCHANGED <<storeVars, view, se, submit, sw, save, modal, del, pending, rejected>>

\* getDocs of a callback settles: the standings are computed from the
\* callback's allScores and the participants read now, and set; nothing in
\* the callback asks whether its subscription was cancelled meanwhile (the
\* setters of an unmounted instance change no displayed state).  A rejection
\* leaves the async callback with nothing that catches it.
standingsSettle(c, x) ==
  /\ x \in os[c].inflight
  /\ \E avail \in BOOLEAN :
       os' = [os EXCEPT ![c] =
                IF avail /\ x.live
                THEN [@ EXCEPT !.standings = calculatedStandings(x.allScores, participants),
                               !.loading = FALSE,
                               !.from = x.allScores,
                               !.inflight = @ \ {x}]
                ELSE IF avail
                THEN [@ EXCEPT !.afterCancel = TRUE, !.inflight = @ \ {x}]
                ELSE [@ EXCEPT !.inflight = @ \ {x}]]
  /\ UNCHANGED <<ev, sideVars>>
  /\ UNCHANGED <<storeVars, view, se, submit, sw, save, modal, del, pending, rejected>>

-----------------------------------------------------------------------------
(* EventScoresView.                                                         *)

\* EventList "View Scores" button: onViewChange('view-event-scores', {id, name});
\* the mounting effect calls fetchParticipants(), which suspends at getDocs.
onShowScores(c, e) ==
  /\ view[c] = "dashboard"
  /\ Quiet(c)
  /\ e \in DOMAIN events
  /\ view' = [view EXCEPT ![c] = "view-event-scores"]
  /\ ev' = [ev EXCEPT ![c] = [EvMount(e) EXCEPT !.fetches = ev[c].fetches \cup {TRUE}]]
  /\ os' = [os EXCEPT ![c] = OsLeft(os[c])]
  /\ modal' = [modal EXCEPT ![c] = ModalClosed]
  /\ UNCHANGED sideVars
  /\ UNCHANGED <<storeVars, se, submit, sw, save, del, pending, rejected>>

\* "Back to Dashboard": the cleanup unsubscribes the scores listener.
onScoresBack(c) ==
  /\ view[c] = "view-event-scores"
  /\ view' = [view EXCEPT ![c] = "dashboard"]
  /\ ev' = [ev EXCEPT ![c] = EvLeft(ev[c])]
  /\ UNCHANGED <<os, sideVars>>
  /\ UNCHANGED <<storeVars, se, submit, sw, save, modal, del, pending, rejected>>

\* getDocs of a fetchParticipants settles: setParticipantsMap(map).
fetchParticipants(c, live) ==
  /\ live \in ev[c].fetches
  /\ \E avail \in BOOLEAN :
       ev' = [ev EXCEPT ![c] =
                IF avail /\ live
                THEN [@ EXCEPT !.participantsMap = participants, !.fetches = @ \ {live}]
                ELSE [@ EXCEPT !.fetches = @ \ {live}]]
  /\ UNCHANGED <<os, sideVars>>
  /\ UNCHANGED <<storeVars, view, se, submit, sw, save, modal, del, pending, rejected>>

\* The listener of the query on eventId fires: sorted, set, loading cleared.
eventScoresSnapshot(c) ==
  /\ view[c] = "view-event-scores"
  /\ LET q == eventQuery(scoreDocs, ev[c].eventId)
     IN  /\ ~ev[c].delivered.got \/ ev[c].delivered.docs # q
         /\ ev' = [ev EXCEPT ![c].delivered = [got |-> TRUE, docs |-> q],
                             ![c].eventScores = scoresData(q),
                             ![c].loading = FALSE]
  /\ UNCHANGED <<os, sideVars>>
  /\ UNCHANGED <<storeVars, view, se, submit, sw, save, modal, del, pending, rejected>>

-----------------------------------------------------------------------------
(* EventForm / ParticipantForm.  A stored event or participant is modelled *)
(* by its name; `type` and `house` travel with it through the same code.   *)

\* name.trim()
trim(name) == IF name = " " THEN "" ELSE IF name = " Bob " THEN "Bob" ELSE name

\* The ids addDoc assigns to new documents of this kind, in order.
IdOrder(kind) == IF kind = "event" THEN EventOrder ELSE ParticipantOrder

\* "Add Event" / "Add Participant": onViewChange('add-event' | 'add-participant').
onAddForm(c, kind) ==
  /\ view[c] = "dashboard"
  /\ Quiet(c)
  /\ view' = [view EXCEPT ![c] = IF kind = "event" THEN "add-event" ELSE "add-participant"]
  /\ form' = [form EXCEPT ![c] = FormMount(kind, "", "", "")]
  /\ os' = [os EXCEPT ![c] = OsLeft(os[c])]
  /\ modal' = [modal EXCEPT ![c] = ModalClosed]
  /\ UNCHANGED <<ev, docIds, now>>
  /\ UNCHANGED <<storeVars, se, submit, sw, save, del, pending, rejected>>

\* "Edit" on a listed row: onViewChange('edit-event' | 'edit-participant', row).
onEditForm(c, kind, id) ==
  /\ view[c] = "dashboard"
  /\ Quiet(c)
  /\ id \in Listed(kind)
  /\ view' = [view EXCEPT ![c] = IF kind = "event" THEN "edit-event" ELSE "edit-participant"]
  /\ form' = [form EXCEPT ![c] = FormMount(kind, id, Collection(kind)[id],
                                             IF kind = "event" THEN eventTypes[id] ELSE "")]
  /\ os' = [os EXCEPT ![c] = OsLeft(os[c])]
  /\ modal' = [modal EXCEPT ![c] = ModalClosed]
  /\ UNCHANGED <<ev, docIds, now>>
  /\ UNCHANGED <<storeVars, se, submit, sw, save, del, pending, rejected>>

\* The name input: setName(e.target.value).
setName(c, name) ==
  /\ form[c].kind # "null"
  /\ form[c].pc = "idle"
  /\ form' = [form EXCEPT ![c].name = name]
  /\ UNCHANGED <<boardVars, docIds, now>>
  /\ UNCHANGED <<storeVars, view, se, submit, sw, save, modal, del, pending, rejected>>

\* The type input of EventForm: setType(e.target.value).
setType(c, type) ==
  /\ form[c].kind = "event"
  /\ form[c].pc = "idle"
  /\ form' = [form EXCEPT ![c].type = type]
  /\ UNCHANGED <<boardVars, docIds, now>>
  /\ UNCHANGED <<storeVars, view, se, submit, sw, save, modal, del, pending, rejected>>

\* Cancel: onViewChange('dashboard').
onFormCancel(c) ==
  /\ form[c].kind # "null"
  /\ form[c].pc = "idle"
  /\ view' = [view EXCEPT ![c] = "dashboard"]
  /\ form' = [form EXCEPT ![c] = FormClosed]
  /\ UNCHANGED <<boardVars, docIds, now>>
  /\ UNCHANGED <<storeVars, se, submit, sw, save, modal, del, pending, rejected>>

\* The required fields of a form, with the type left out.
formInvalidNameOnly(f) == trim(f.name) = ""

\* !name.trim() || !type.trim() (EventForm), !name.trim() (ParticipantForm)
formInvalid(f) ==
  trim(f.name) = "" \/ (f.kind = "event" /\ trim(f.type) = "")

\* handleSubmit of a form up to its await: an empty required field is
\* refused.
formSubmit(c) ==
  /\ form[c].kind # "null"
  /\ form[c].pc = "idle"
  /\ form' = IF formInvalid(form[c])
             THEN [form EXCEPT ![c].error = "empty"]
             ELSE [form EXCEPT ![c].pc = "write"]
  /\ UNCHANGED <<boardVars, docIds, now>>
  /\ UNCHANGED <<storeVars, view, se, submit, sw, save, modal, del, pending, rejected>>

\* updateDoc / addDoc of a form settles: onSave() on success, the error
\* message otherwise.
formWrite(c) ==
  /\ form[c].pc = "write"
  /\ form[c].edit = "" => docIds[form[c].kind] < Len(IdOrder(form[c].kind))
  /\ \E avail \in BOOLEAN :
       LET f == form[c]
           r == IF f.edit # ""
                THEN updateDoc(Collection(f.kind), f.edit, trim(f.name), avail)
                ELSE addDoc(Collection(f.kind), IdOrder(f.kind)[docIds[f.kind] + 1],
                            trim(f.name), avail)
       IN  /\ events' = IF f.kind = "event" THEN r.docs ELSE events
           /\ eventTypes' = IF f.kind = "event" /\ r.err = ""
                            THEN (IF f.edit # "" THEN f.edit
                                  ELSE IdOrder(f.kind)[docIds[f.kind] + 1]) :> trim(f.type)
                                 @@ eventTypes
                            ELSE eventTypes
           /\ participants' = IF f.kind = "participant" THEN r.docs ELSE participants
           /\ docIds' = IF f.edit = "" /\ r.err = ""
                        THEN [docIds EXCEPT ![f.kind] = @ + 1] ELSE docIds
           /\ IF r.err = ""
              THEN /\ view' = [view EXCEPT ![c] = "dashboard"]
                   /\ form' = [form EXCEPT ![c] = FormClosed]
              ELSE /\ view' = view
                   /\ form' = [form EXCEPT ![c].error = r.err, ![c].pc = "idle"]
  /\ UNCHANGED <<boardVars, now>>
  /\ UNCHANGED <<scoreDocs, nextScoreId, se, submit, sw, save, modal, del, pending, rejected>>

-----------------------------------------------------------------------------

ScoreEntryStep(c) ==
  \/ \E e \in DOMAIN InitEvents : onAddScore(c, e)
  \/ onBack(c)
  \/ participantsSnapshot(c)
  \/ scoresSnapshot(c)
  \/ \E p \in DOMAIN InitParticipants, value \in TypedInputs : handleScoreChange(c, p, value)
  \/ handleSubmit(c)
  \/ submitIteration(c)
  \/ submitDone(c)

StopwatchStep(c) ==
  \/ onStopwatch(c)
  \/ onBack(c)
  \/ \E ms \in ElapsedSamples : stopwatchRun(c, ms)
  \/ \E e \in DOMAIN InitEvents : setSelectedEvent(c, e)
  \/ \E p \in DOMAIN InitParticipants : setSelectedParticipant(c, p)
  \/ handleSaveScore(c)
  \/ saveQuery(c)
  \/ saveWrite(c)

DeleteStep(c) ==
  \/ \E kind \in Kinds, id \in DOMAIN InitEvents \cup DOMAIN InitParticipants :
       handleDelete(c, kind, id)
  \/ closeModal(c)
  \/ confirmModal(c)
  \/ cascadeParent(c)
  \/ cascadeQuery(c)
  \/ \E x \in pending : x.by = c /\ dependentDelete(x)

\* The two views of the scores, by one caller, over a store at rest.
RankingStep(c) ==
  \/ standingsSnapshot(c)
  \/ \E x \in os[c].inflight : standingsSettle(c, x)
  \/ \E e \in DOMAIN InitEvents : onShowScores(c, e)
  \/ onScoresBack(c)
  \/ \E live \in BOOLEAN : fetchParticipants(c, live)
  \/ eventScoresSnapshot(c)

\* The forms, by one caller.
FormStep(c) ==
  \/ \E kind \in Kinds : onAddForm(c, kind)
  \/ \E kind \in Kinds, id \in DOMAIN InitEvents \cup DOMAIN BoardParticipants :
       onEditForm(c, kind, id)
  \/ \E name \in TypedNames : setName(c, name)
  \/ \E type \in TypedTypes : setType(c, type)
  \/ onFormCancel(c)
  \/ formSubmit(c)
  \/ formWrite(c)

\* Score entry and cascade deletes, by every caller.
Next == \E c \in Callers : ScoreEntryStep(c) \/ DeleteStep(c)

Spec == Init /\ [][Next]_vars

\* The two ways of saving a score, by every caller.
NextSavers == \E c \in Callers : ScoreEntryStep(c) \/ StopwatchStep(c)

SpecSavers == Init /\ [][NextSavers]_vars

\* One caller alone, with every component.
NextSolo ==
  \/ ScoreEntryStep("c1")
  \/ StopwatchStep("c1")
  \/ DeleteStep("c1")
  \/ \E p \in DOMAIN InitParticipants, value \in MoreTypedInputs :
       handleScoreChange("c1", p, value)

SpecSolo == Init /\ [][NextSolo]_vars

\* Score entry by one caller, with the strings of FilterInputs.
NextFilter ==
  \/ ScoreEntryStep("c1")
  \/ \E p \in DOMAIN InitParticipants, value \in FilterInputs :
       handleScoreChange("c1", p, value)

SpecFilter == Init /\ [][NextFilter]_vars

\* A timed run that is stopped and resumed: Start and Stop only, and time
\* that passes while the stopwatch is stopped.
NextResume ==
  \/ onStopwatch("c1")
  \/ (sw["c1"].phase \in {"idle", "stopped"} /\ startStopwatch("c1"))
  \/ (sw["c1"].phase = "started" /\ stopStopwatch("c1"))
  \/ intervalCallback("c1")
  \/ timerEffect("c1")
  \/ clockAdvance(ResumeEnd)
  \/ clockIdle(ResumeEnd)

SpecResume == Init /\ [][NextResume]_vars

\* The stopwatch saves of one caller alone.
NextStopwatch ==
  \/ StopwatchStep("c1")
  \/ \E ms \in MoreElapsedSamples : stopwatchRun("c1", ms)

SpecStopwatch == Init /\ [][NextStopwatch]_vars

\* One caller looks at the standings while another enters scores.
NextLive == RankingStep("c1") \/ ScoreEntryStep("c2")

SpecLive == Init /\ [][NextLive]_vars

\* The stopwatch of one caller with all its buttons, on a short clock.
NextTimer ==
  \/ onStopwatch("c1")
  \/ onBack("c1")
  \/ startStopwatch("c1")
  \/ stopStopwatch("c1")
  \/ resetStopwatch("c1")
  \/ lapStopwatch("c1")
  \/ intervalCallback("c1")
  \/ timerEffect("c1")
  \/ clockAdvance(ClockEnd)

SpecTimer == Init /\ [][NextTimer]_vars

\* One timed run: Start once and Stop once, on a clock long enough for a
\* dozen samples.
NextDrift ==
  \/ onStopwatch("c1")
  \/ (sw["c1"].phase = "idle" /\ startStopwatch("c1"))
  \/ stopStopwatch("c1")
  \/ intervalCallback("c1")
  \/ timerEffect("c1")
  \/ clockAdvance(DriftEnd)

SpecDrift == Init /\ [][NextDrift]_vars

\* Every score collection of the bounded family, at rest, and one caller
\* looking at it.
RankingStores ==
  UNION {[1..n -> [eventId : RankedEvents, participantId : RankedParticipants,
                   score : ScoreSamples]] : n \in 0..MaxRankedDocs}

InitRanking == \E docs \in RankingStores : InitWith(InitEvents, BoardParticipants, docs)

NextRanking == RankingStep("c1")

SpecRanking == InitRanking /\ [][NextRanking]_vars

\* Every collection of up to MaxStandingDocs scores of one event, at rest:
\* p3 has scores and no participant record.
StandingStores ==
  UNION {[1..n -> [eventId : {"e1"}, participantId : RankedParticipants,
                   score : ScoreSamples]] : n \in 0..MaxStandingDocs}

InitStandings ==
  \E docs \in StandingStores : InitWith(InitEvents, BoardParticipants, docs)

SpecStandings == InitStandings /\ [][NextRanking]_vars

\* The four save actions (the two forms, score entry, the stopwatch), by one
\* caller, with two participants to enter scores for.
InitSaves == InitWith(InitEvents, BoardParticipants, EmptyMap)

NextSaves ==
  \/ ScoreEntryStep("c1")
  \/ \E p \in DOMAIN BoardParticipants \ DOMAIN InitParticipants, value \in TypedInputs :
       handleScoreChange("c1", p, value)
  \/ StopwatchStep("c1")
  \/ FormStep("c1")

SpecSaves == InitSaves /\ [][NextSaves]_vars

\* The two forms, by one caller, with one more name to type.
NextForms ==
  \/ FormStep("c1")
  \/ \E name \in MoreTypedNames : setName("c1", name)

SpecForms == InitSaves /\ [][NextForms]_vars

\* One caller looks at the standings and the event scores while the other
\* adds and edits events and participants.
BoardScores == [d \in {1} |-> [eventId |-> "e1", participantId |-> "p1", score |-> 1000]]

InitBoard == InitWith(InitEvents, BoardParticipants, BoardScores)

NextBoard == RankingStep("c1") \/ FormStep("c2")

SpecBoard == InitBoard /\ [][NextBoard]_vars

-----------------------------------------------------------------------------
(* Steps of the handlers, recognised from the states before and after.     *)

\* Caller c's handleSubmit runs one loop iteration.
SubmitActs(c) ==
  /\ submit[c].pc = "run"
  /\ submit[c].i <= Len(submit[c].participants)
  /\ submit'[c] # submit[c]

\* The participant that iteration is about.
SubmitParticipant(c) == submit[c].participants[submit[c].i]

\* The store could be reached by that iteration's operation.
SubmitReached(c) == se'[c].error # "unavailable"

\* Caller c's handleSaveScore settles its write.
SaveActs(c) == save[c].pc = "write" /\ save'[c] # save[c]

\* Caller c's cascade settles the delete of the parent.
ParentActs(c) == del[c].pc = "parent" /\ del'[c] # del[c]

-----------------------------------------------------------------------------
(* Claims.                                                                  *)

\* C1: in every reachable state of the score store there is at most one
\* Score record for each (eventId, participantId) pair, whatever the
\* interleaving of ScoreEntry and Stopwatch saves.
C1_AtMostOneScorePerPair ==
  \A a \in DOMAIN scoreDocs, b \in DOMAIN scoreDocs :
    (scoreDocs[a].eventId = scoreDocs[b].eventId
       /\ scoreDocs[a].participantId = scoreDocs[b].participantId) => a = b

\* C2: when a cascade delete reports success, the store holds no score that
\* refers to the deleted event (participant).
C2_CascadeComplete ==
  \A c \in Callers :
    modal[c].message = "success" =>
      scoresQuery(scoreDocs, RefField(modal[c].subject.kind), modal[c].subject.id) = {}

\* C3: whenever no cascade delete is in progress, every score refers to an
\* event and a participant that both exist.
C3_NoDanglingScore ==
  ((\A c \in Callers : del[c].pc = "idle") /\ pending = {}) =>
    \A d \in DOMAIN scoreDocs :
      /\ scoreDocs[d].eventId \in DOMAIN events
      /\ scoreDocs[d].participantId \in DOMAIN participants

\* C4: a cascade whose deletion of a dependent score failed never reports
\* success.
C4_DependentFailureNotSuccess ==
  \A x \in rejected : modal[x.by].message # "success"

\* C5: a ScoreEntry save of a non-empty numeric candidate v for a pair (of an
\* existing event and participant) with no score record creates exactly one
\* record, holding the pair and v (the store being reachable).
C5_SaveCreatesOneRecord ==
  [][\A c \in Callers :
       (/\ SubmitActs(c)
        /\ HasCandidate(submit[c].scores, SubmitParticipant(c))
        /\ parseFloat(submit[c].scores[SubmitParticipant(c)]) # NaN
        /\ Pair(scoreDocs, submit[c].eventId, SubmitParticipant(c)) = {}
        /\ submit[c].eventId \in DOMAIN events
        /\ SubmitParticipant(c) \in DOMAIN participants
        /\ SubmitReached(c))
       => \E d \in DOMAIN scoreDocs' :
            /\ d \notin DOMAIN scoreDocs
            /\ DOMAIN scoreDocs' = DOMAIN scoreDocs \cup {d}
            /\ scoreDocs'[d] =
                 [eventId |-> submit[c].eventId,
                  participantId |-> SubmitParticipant(c),
                  score |-> parseFloat(submit[c].scores[SubmitParticipant(c)])]
     ]_vars

\* C6: with one caller alone, a save for a pair that holds the record of an
\* earlier save leaves exactly that record (same id), with the new value.
C6_SecondSaveUpdatesSameRecord ==
  [][(/\ SubmitActs("c1")
      /\ HasCandidate(submit["c1"].scores, SubmitParticipant("c1"))
      /\ parseFloat(submit["c1"].scores[SubmitParticipant("c1")]) # NaN
      /\ Cardinality(Pair(scoreDocs, submit["c1"].eventId, SubmitParticipant("c1"))) = 1
      /\ SubmitReached("c1"))
     => /\ Pair(scoreDocs', submit["c1"].eventId, SubmitParticipant("c1"))
             = Pair(scoreDocs, submit["c1"].eventId, SubmitParticipant("c1"))
        /\ \A d \in Pair(scoreDocs', submit["c1"].eventId, SubmitParticipant("c1")) :
             scoreDocs'[d].score = parseFloat(submit["c1"].scores[SubmitParticipant("c1")])
    ]_vars

\* C7: a ScoreEntry save with an empty candidate for a participant that has
\* an existing score record leaves no score for the pair in the store.
C7_ClearRemovesScore ==
  [][\A c \in Callers :
       (/\ SubmitActs(c)
        /\ ~HasCandidate(submit[c].scores, SubmitParticipant(c))
        /\ SubmitParticipant(c) \in DOMAIN submit[c].existingScores
        /\ SubmitReached(c))
       => Pair(scoreDocs', submit[c].eventId, SubmitParticipant(c)) = {}
     ]_vars

\* C8: a ScoreEntry save with an empty or absent candidate for a participant
\* without an existing score issues no store operation: the score store is
\* unchanged, nothing fails and the loop goes on.
C8_EmptyCandidateNoMutation ==
  [][\A c \in Callers :
       (/\ SubmitActs(c)
        /\ ~HasCandidate(submit[c].scores, SubmitParticipant(c))
        /\ SubmitParticipant(c) \notin DOMAIN submit[c].existingScores)
       => /\ scoreDocs' = scoreDocs
          /\ nextScoreId' = nextScoreId
          /\ se' = se
          /\ submit'[c] = [submit[c] EXCEPT !.i = submit[c].i + 1]
     ]_vars

\* C8 witness: such an iteration has run (an input cleared by the user, no
\* record known) while the store holds a score.
C8_Witness ==
  \E c \in Callers :
    /\ submit[c].pc = "run"
    /\ submit[c].i = 2
    /\ submit[c].participants[1] \in DOMAIN submit[c].scores
    /\ ~HasCandidate(submit[c].scores, submit[c].participants[1])
    /\ submit[c].participants[1] \notin DOMAIN submit[c].existingScores
    /\ scoreDocs # EmptyMap

\* The save of caller d that is in flight for pair (e, p), began when record
\* r existed, and writes a value other than v.
OtherSaveInFlight(d, e, p, r, v) ==
  \/ /\ submit[d].pc = "run"
     /\ submit[d].i <= Len(submit[d].participants)
     /\ submit[d].eventId = e
     /\ SubmitParticipant(d) = p
     /\ HasCandidate(submit[d].scores, p)
     /\ parseFloat(submit[d].scores[p]) # v
     /\ r \in submit[d].atStart
  \/ /\ save[d].pc \in {"query", "write"}
     /\ save[d].eventId = e
     /\ save[d].participantId = p
     /\ save[d].score # v
     /\ r \in save[d].atStart

\* The store after a write of v to pair (e, p) that held exactly record r.
OneRecordWith(e, p, r, v) ==
  /\ Pair(scoreDocs', e, p) = {r}
  /\ scoreDocs'[r].score = v

\* C9: two callers save different values at the same time for a pair that
\* already held one record when both began: the write that lands first
\* leaves exactly that record, holding the value written (so the last one
\* to land decides the final value of a single record).
C9_LastWriteWins ==
  [][\A c \in Callers, d \in Callers, r \in DOMAIN scoreDocs :
       (c # d) =>
         /\ (/\ SubmitActs(c)
             /\ HasCandidate(submit[c].scores, SubmitParticipant(c))
             /\ SubmitReached(c)
             /\ Pair(scoreDocs, submit[c].eventId, SubmitParticipant(c)) = {r}
             /\ r \in submit[c].atStart
             /\ OtherSaveInFlight(d, submit[c].eventId, SubmitParticipant(c), r,
                                  parseFloat(submit[c].scores[SubmitParticipant(c)])))
            => OneRecordWith(submit[c].eventId, SubmitParticipant(c), r,
                             parseFloat(submit[c].scores[SubmitParticipant(c)]))
         /\ (/\ SaveActs(c)
             /\ sw'[c].saveMessage # "unavailable"
             /\ Pair(scoreDocs, save[c].eventId, save[c].participantId) = {r}
             /\ r \in save[c].atStart
             /\ OtherSaveInFlight(d, save[c].eventId, save[c].participantId, r,
                                  save[c].score))
            => OneRecordWith(save[c].eventId, save[c].participantId, r, save[c].score)
     ]_vars

\* C10: deleting an event, participant or score that is already deleted is a
\* no-op: the collection is unchanged and no error other than an unreachable
\* store is reported; the handler goes on.
C10_DeleteOfMissingIsNoOp ==
  [][/\ \A c \in Callers :
          (ParentActs(c) /\ del[c].id \notin DOMAIN Collection(del[c].kind))
          => /\ events' = events
             /\ participants' = participants
             /\ \/ del'[c].pc = "query"
                \/ modal'[c].message = "unavailable"
     /\ \A c \in Callers :
          (/\ SubmitActs(c)
           /\ scoreBranch(submit[c].scores, submit[c].existingScores,
                          SubmitParticipant(c)) = "delete"
           /\ submit[c].existingScores[SubmitParticipant(c)] \notin DOMAIN scoreDocs)
          => /\ scoreDocs' = scoreDocs
             /\ \/ submit'[c].i = submit[c].i + 1
                \/ se'[c].error = "unavailable"
     /\ \A x \in pending :
          (x \notin pending' /\ x.id \notin DOMAIN scoreDocs)
          => /\ scoreDocs' = scoreDocs
             /\ \A y \in rejected' \ rejected : y.err = "unavailable"
    ]_vars

\* C10 witness: two callers confirmed the same delete and both parent deletes
\* went through; the later of them deleted a document that was already gone.
C10_Witness ==
  \E c \in Callers, d \in Callers :
    /\ c # d
    /\ del[c].pc = "query"
    /\ del[d].pc = "query"
    /\ del[c].kind = del[d].kind
    /\ del[c].id = del[d].id

\* C11: a cascade re-run for an event or participant whose parent document
\* is already deleted reports no error other than an unreachable store, and
\* when it reports success no score that refers to the parent is left in
\* the store (so one more run finds nothing to change).
C11_RerunHealsOrphans ==
  \A c \in Callers :
    modal[c].rerun =>
      /\ modal[c].message \in {"success", "unavailable"}
      /\ modal[c].message = "success" =>
           scoresQuery(scoreDocs, RefField(modal[c].subject.kind),
                       modal[c].subject.id) = {}

\* a < b of two numbers: false when either is NaN.
Less(a, b) == a # NaN /\ b # NaN /\ a < b

\* a == b of two numbers: false when either is NaN.
NumEq(a, b) == a # NaN /\ b # NaN /\ a = b

\* C12: the ranking EventScoresView shows for event E holds exactly the
\* score records with eventId = E, no record comes before one with a higher
\* score, and records of equal score keep their snapshot order.
C12_EventRankingSorted ==
  \A c \in Callers :
    (view[c] = "view-event-scores" /\ ~ev[c].loading) =>
      LET r == ev[c].eventScores
          snap == ev[c].delivered.docs
      IN  /\ DOMAIN snap = scoresQuery(scoreDocs, "eventId", ev[c].eventId)
          /\ Len(r) = Cardinality(DOMAIN snap)
          /\ \A i \in 1..Len(r) :
               /\ r[i].id \in DOMAIN snap
               /\ snap[r[i].id] = [eventId |-> r[i].eventId,
                                    participantId |-> r[i].participantId,
                                    score |-> r[i].score]
          /\ \A i \in 1..Len(r), j \in 1..Len(r) :
               i < j => /\ ~Less(r[i].score, r[j].score)
                        /\ NumEq(r[i].score, r[j].score) => r[i].id < r[j].id

\* The sum of the scores of participant p over the documents ds of docs.
RECURSIVE SumOver(_, _, _)
SumOver(docs, ds, p) ==
  IF ds = {} THEN 0
  ELSE LET d == CHOOSE x \in ds : TRUE
           rest == SumOver(docs, ds \ {d}, p)
       IN  IF docs[d].participantId # p THEN rest
           ELSE IF docs[d].score = NaN \/ rest = NaN THEN NaN
           ELSE docs[d].score + rest

\* C13: the standings OverallStandings shows hold one row per participant
\* of the snapshot they were computed from, each totalScore is the sum of
\* that participant's scores in the snapshot, no row comes before one with a
\* higher total, and the rank shown is the row's 1-based position.
C13_StandingsSummedAndSorted ==
  \A c \in Callers :
    (view[c] = "dashboard" /\ ~os[c].loading) =>
      LET r == os[c].standings
          snap == os[c].from
          ps == {snap[d].participantId : d \in DOMAIN snap}
      IN  /\ Len(r) = Cardinality(ps)
          /\ {r[i].participantId : i \in 1..Len(r)} = ps
          /\ \A i \in 1..Len(r) :
               /\ r[i].totalScore = SumOver(snap, DOMAIN snap, r[i].participantId)
               /\ rankShown(i - 1) = i
          /\ \A i \in 1..Len(r), j \in 1..Len(r) :
               i < j => ~Less(r[i].totalScore, r[j].totalScore)

\* A recomputation of caller c's standings is on its way: the listener is
\* about to fire, or a callback of the live subscription awaits its getDocs.
RecomputeDue(c) ==
  \/ ~os[c].delivered.got
  \/ os[c].delivered.docs # scoreDocs
  \/ \E x \in os[c].inflight : x.live

\* C14: whenever the name a displayed standing shows differs from the stored
\* participant's, a recomputation of the standings is on its way (so that
\* the displayed metadata eventually equals the stored one without any
\* change to the scores).
C14_MetadataChangeRecomputes ==
  \A c \in Callers :
    (view[c] = "dashboard" /\ ~os[c].loading) =>
      \/ \A i \in 1..Len(os[c].standings) :
           os[c].standings[i].name
             = nameOrUnknown(participants, os[c].standings[i].participantId)
      \/ RecomputeDue(c)

C16_FailedSaveLeavesStore ==
  [][\A c \in Callers :
       /\ (SubmitActs(c) /\ se'[c].error # "")
          => /\ storeVars' = storeVars
             /\ submit'[c].pc = "idle"
             /\ \A j \in 1..(submit[c].i - 1) :
                  scoreBranch(submit[c].scores, submit[c].existingScores,
                              submit[c].participants[j]) = "none"
       /\ (save[c].pc \in {"query", "write"} /\ save'[c].pc = "idle"
              /\ sw'[c].saveMessage \notin {"saved", "updated"})
          => /\ storeVars' = storeVars
             /\ sw'[c].saveMessage # sw[c].saveMessage \/ sw[c].saveMessage = "unavailable"
       /\ (form[c].pc = "write" /\ form'[c] # form[c] /\ form'[c].error # "")
          => /\ storeVars' = storeVars
             /\ form'[c].pc = "idle"
             /\ view'[c] = view[c]
     ]_vars

\* C17: resetStopwatch, invoked in any stopwatch state (idle, running or
\* stopped, with any number of laps), leads to a state with elapsedTime 0,
\* an empty lap list and isRunning false.
C17_ResetClearsTimer ==
  [][\A c \in Callers :
       resetStopwatch(c) => /\ sw'[c].elapsedTime = 0
                            /\ sw'[c].laps = << >>
                            /\ ~sw'[c].isRunning
    ]_vars

\* A reset was invoked while the stopwatch ran with lap marks, and no time
\* and no mark is displayed.
C17_Witness ==
  \E c \in Callers :
    /\ sw[c].last = [op |-> "reset", wasRunning |-> TRUE, hadLaps |-> MaxLaps]
    /\ sw[c].elapsedTime = 0
    /\ sw[c].laps = << >>
    /\ ~sw[c].isRunning

\* C18: lapStopwatch, invoked while the stopwatch is not running (idle or
\* stopped), leaves the lap sequence, elapsedTime and isRunning unchanged.
C18_LapWhileStoppedIsNoOp ==
  [][\A c \in Callers :
       (lapStopwatch(c) /\ ~sw[c].isRunning)
          => /\ sw'[c].laps = sw[c].laps
             /\ sw'[c].elapsedTime = sw[c].elapsedTime
             /\ sw'[c].isRunning = sw[c].isRunning
    ]_vars

\* lapStopwatch was invoked on a stopped stopwatch that shows a time and a
\* lap mark.
C18_Witness ==
  \E c \in Callers :
    /\ sw[c].last.op = "lap"
    /\ ~sw[c].last.wasRunning
    /\ ~sw[c].isRunning
    /\ sw[c].elapsedTime > 0
    /\ Len(sw[c].laps) = 1
    /\ sw[c].last.hadLaps = 1

\* C19: from idle, a start at t0 followed by a stop at t1, with no other
\* user action, yields a frozen elapsedTime within one sampling interval
\* (10 ms) of t1 - t0, whatever the number of interval callbacks and of
\* timer-effect runs in between.
C19_ElapsedWithinOneSample ==
  \A c \in Callers :
    (sw[c].phase = "stopped" /\ sw[c].effectSince = 0 - 1 /\ sw[c].intervalDue = 0)
       => /\ sw[c].elapsedTime - (sw[c].t1 - sw[c].t0) <= SamplingInterval
          /\ (sw[c].t1 - sw[c].t0) - sw[c].elapsedTime <= SamplingInterval

\* An unsigned decimal number: digits with at most one ".", and at least
\* one digit.
IsUnsignedDecimal(s) ==
  /\ \A i \in 1..Len(s) : s[i] \in Digits \cup {"."}
  /\ Cardinality({i \in 1..Len(s) : s[i] = "."}) <= 1
  /\ \E i \in 1..Len(s) : s[i] \in Digits

\* C20: handleScoreChange stores a candidate string as the local candidate
\* exactly when it is empty or an unsigned decimal number ("12.5", "0" and
\* "" are accepted); any other string ("abc", "1.2.3") leaves the local
\* candidates unchanged.
C20_FilterAcceptsExactlyNumbers ==
  [][\A c \in Callers, p \in DOMAIN InitParticipants, value \in FilterInputs :
       handleScoreChange(c, p, value)
          => IF value = << >> \/ IsUnsignedDecimal(value)
             THEN p \in DOMAIN se'[c].scores /\ se'[c].scores[p] = Str(value)
             ELSE se'[c].scores = se[c].scores
    ]_vars

\* C21: once the standings OverallStandings displays are the ones derived
\* from the score snapshot delivered last, they stay so until the next
\* snapshot is delivered, whatever the order in which the participant reads
\* of earlier snapshots complete (so that after snapshots S1 and S2 the
\* standings of S2 are displayed for good).
C21_LatestSnapshotStays ==
  [][\A c \in Callers :
       (/\ view[c] = "dashboard" /\ view'[c] = "dashboard"
        /\ ~os[c].loading
        /\ os[c].from = os[c].delivered.docs
        /\ os'[c].delivered = os[c].delivered)
          => /\ os'[c].from = os[c].from
             /\ os'[c].standings = os[c].standings
    ]_vars

\* C22: a score save decides to create a record from a lookup of the store
\* made during that save, before its write: it never creates one for a pair
\* of which one and the same record was in the store from the moment the
\* save was invoked until its write, in ScoreEntry.handleSubmit as in
\* Stopwatch.handleSaveScore.
C22_CreateDecidedByLookupInSave ==
  [][\A c \in Callers :
       /\ (/\ SubmitActs(c)
           /\ scoreBranch(submit[c].scores, submit[c].existingScores,
                          SubmitParticipant(c)) = "add")
          => submit[c].atStart
               \cap Pair(scoreDocs, submit[c].eventId, SubmitParticipant(c)) = {}
       /\ (save[c].pc = "write" /\ save'[c].pc = "idle" /\ save[c].found = 0)
          => save[c].atStart
               \cap Pair(scoreDocs, save[c].eventId, save[c].participantId) = {}
    ]_vars

\* C23: while the stopwatch runs with its interval set, no sample and no
\* effect run changes the start reference recorded for the start, and every
\* sampled elapsedTime is now minus that reference.
C23_SamplesKeepStartReference ==
  [][\A c \in Callers :
       (/\ view[c] = "stopwatch" /\ view'[c] = "stopwatch"
        /\ sw[c].isRunning /\ sw'[c].isRunning
        /\ sw[c].intervalDue # 0
        /\ sw'[c].last = sw[c].last)
          => /\ sw'[c].startTimeRef = sw[c].startTimeRef
             /\ sw'[c].elapsedTime \in {sw[c].elapsedTime, now - sw[c].startTimeRef}
    ]_vars

\* C24: after a stop with frozen value e, a start resumes from e: every
\* elapsedTime sampled after the resume is at least e, and at most e plus
\* the time since the resume (the time spent stopped is not counted).
C24_ResumeFromFrozen ==
  [][\A c \in Callers :
       (/\ sw[c].phase = "resumed" /\ sw'[c].phase = "resumed"
        /\ sw'[c].elapsedTime # sw[c].elapsedTime)
          => /\ sw'[c].elapsedTime >= sw[c].frozen
             /\ sw'[c].elapsedTime <= sw[c].frozen + (now - sw[c].t2)
    ]_vars

\* A run was stopped with a time on display, stayed stopped for a while and
\* was resumed, and a sample taken since shows more than the frozen time.
C24_Witness ==
  \E c \in Callers :
    /\ sw[c].phase = "resumed"
    /\ sw[c].frozen > 0
    /\ sw[c].t2 - sw[c].t1 >= 3
    /\ sw[c].elapsedTime > sw[c].frozen

\* C25: while the stopwatch is not running (after a stop or a reset), no
\* sampling interval is left active whose tick changes elapsedTime: up to
\* the next start elapsedTime changes only by being reset to 0.
C25_NoSampleWhileNotRunning ==
  [][\A c \in Callers :
       (/\ view[c] = "stopwatch" /\ view'[c] = "stopwatch"
        /\ ~sw[c].isRunning /\ ~sw'[c].isRunning)
          => sw'[c].elapsedTime \in {sw[c].elapsedTime, 0}
    ]_vars

\* C26: between a start and the next stop or reset, successive values of
\* elapsedTime are non-decreasing.
C26_ElapsedNonDecreasing ==
  [][\A c \in Callers :
       (/\ view[c] = "stopwatch" /\ view'[c] = "stopwatch"
        /\ sw[c].isRunning /\ sw'[c].isRunning)
          => sw'[c].elapsedTime >= sw[c].elapsedTime
    ]_vars

\* A resumed run has been sampled twice since the resume.
C26_Witness ==
  \E c \in Callers :
    /\ sw[c].phase = "resumed"
    /\ sw[c].isRunning
    /\ sw[c].frozen > 0
    /\ sw[c].elapsedTime >= sw[c].frozen + SamplingInterval + 1

\* C27: the lap sequence changes only by one value appended at its end, the
\* elapsedTime on display, while the stopwatch runs, or by being cleared; so
\* the laps held at any time are in non-decreasing order.
C27_LapsAppendOnly ==
  [][\A c \in Callers :
       (view[c] = "stopwatch" /\ view'[c] = "stopwatch")
          => /\ \/ sw'[c].laps = sw[c].laps
                \/ sw'[c].laps = << >>
                \/ sw[c].isRunning /\ sw'[c].laps = Append(sw[c].laps, sw[c].elapsedTime)
             /\ \A i \in 1..Len(sw'[c].laps), j \in 1..Len(sw'[c].laps) :
                  i < j => sw'[c].laps[i] <= sw'[c].laps[j]
    ]_vars

\* Two laps were taken at different times of one run.
C27_Witness ==
  \E c \in Callers :
    /\ Len(sw[c].laps) = 2
    /\ sw[c].laps[1] < sw[c].laps[2]
    /\ sw[c].last.op = "lap"

\* C28: a stopwatch save of one caller alone that succeeds for the selected
\* pair (E, P) with elapsedTime ms > 0 leaves exactly one record for the
\* pair, with score ms / 1000: a new record when the pair had none, and the
\* record the pair had (same id) when it had one, every other record being
\* left as it was.
C28_StopwatchSaveUpserts ==
  [][\A c \in Callers :
       (SaveActs(c) /\ sw'[c].saveMessage \in {"saved", "updated"})
          => LET e == save[c].eventId
                 p == save[c].participantId
                 old == Pair(scoreDocs, e, p)
                 new == Pair(scoreDocs', e, p)
             IN  /\ e = sw[c].selectedEvent /\ p = sw[c].selectedParticipant
                 /\ sw[c].elapsedTime > 0
                 /\ Cardinality(new) = 1
                 /\ \A r \in new :
                      scoreDocs'[r].score * MsPerSecond = sw[c].elapsedTime * 1000
                 /\ old # {} => (new = old /\ sw'[c].saveMessage = "updated")
                 /\ old = {} => (DOMAIN scoreDocs' = DOMAIN scoreDocs \cup new
                                 /\ sw'[c].saveMessage = "saved")
                 /\ \A r \in DOMAIN scoreDocs \ old :
                      r \in DOMAIN scoreDocs' /\ scoreDocs'[r] = scoreDocs[r]
    ]_vars

\* A second save has updated the record of the pair to the time on display.
C28_Witness ==
  \E c \in Callers, r \in DOMAIN scoreDocs :
    /\ sw[c].saveMessage = "updated"
    /\ sw[c].elapsedTime = 2750
    /\ DOMAIN scoreDocs = {r}
    /\ scoreDocs[r] = [eventId |-> sw[c].selectedEvent,
                       participantId |-> sw[c].selectedParticipant, score |-> 2750]

\* C29: the standings OverallStandings shows hold exactly one row for each
\* participantId of the score snapshot they were computed from and no other
\* row (a participant without a score has none), and a row whose
\* participantId has no participant record shows the name "Unknown" and
\* the house "N/A".
C29_OneRowPerScoredParticipant ==
  \A c \in Callers :
    (view[c] = "dashboard" /\ ~os[c].loading) =>
      LET r == os[c].standings
          ps == {os[c].from[d].participantId : d \in DOMAIN os[c].from}
      IN  /\ \A p \in ps : Cardinality({i \in 1..Len(r) : r[i].participantId = p}) = 1
          /\ \A i \in 1..Len(r) :
               /\ r[i].participantId \in ps
               /\ r[i].participantId \notin DOMAIN participants
                    => r[i].name = "Unknown" /\ r[i].house = "N/A"

\* The standings on display hold a row for a participant without a record
\* and a row for a stored one, and none for a stored participant that has no
\* score.
C29_Witness ==
  \E c \in Callers :
    /\ view[c] = "dashboard" /\ ~os[c].loading
    /\ Len(os[c].standings) = 2
    /\ \E i \in 1..2 : os[c].standings[i].participantId \notin DOMAIN participants
    /\ \E i \in 1..2 : os[c].standings[i].name = "Ann"
    /\ "p2" \in DOMAIN participants

\* C30: every non-empty candidate string that handleScoreChange has stored
\* as a local candidate parses to a number, and no score held by the store
\* is NaN.
C30_NoNaNScoreWritten ==
  /\ \A c \in Callers : \A p \in DOMAIN se[c].scores :
       HasCandidate(se[c].scores, p) => parseFloat(se[c].scores[p]) # NaN
  /\ \A d \in DOMAIN scoreDocs : scoreDocs[d].score # NaN

\* A string with nothing in it, or blanks only.
Blank(str) == str \in {"", " "}

\* A stored string that is not empty and has no blank at either end.
Trimmed(str) == str \notin {"", " ", " Bob "}

\* C31: handleSubmit of EventForm with an empty or blank name or type, and of
\* ParticipantForm with an empty or blank name, shows a validation error and
\* issues no store operation (the store stays as it is and no write is left
\* in flight); and after every step each stored event has a non-empty
\* trimmed name and type and each stored participant a non-empty trimmed
\* name.
C31_BlankFieldsRefused ==
  [][/\ \A c \in Callers :
          (formSubmit(c) /\ (Blank(form[c].name)
                               \/ (form[c].kind = "event" /\ Blank(form[c].type))))
             => /\ form'[c].error = "empty"
                /\ form'[c].pc = "idle"
                /\ storeVars' = storeVars
                /\ view'[c] = view[c]
     /\ \A e \in DOMAIN events' : Trimmed(events'[e]) /\ Trimmed(eventTypes'[e])
     /\ \A p \in DOMAIN participants' : Trimmed(participants'[p])
    ]_vars

\* EventForm shows the validation error with a name typed and a blank type,
\* and an event typed with blanks around its name has been stored before.
C31_Witness ==
  \E c \in Callers :
    /\ form[c].kind = "event" /\ form[c].error = "empty" /\ form[c].pc = "idle"
    /\ ~Blank(form[c].name) /\ Blank(form[c].type)
    /\ "e2" \in DOMAIN events /\ events["e2"] = "Bob" /\ eventTypes["e2"] = "Track"

\* C32: no step of a ScoreEntry save changes or removes a stored score of a
\* pair whose candidate the saving caller did not edit (the candidate is
\* absent, or is the number copied from the last snapshot the caller
\* received), whatever other callers did to the pair since that snapshot.
C32_UneditedPairsUntouched ==
  [][\A c \in Callers : \A p \in DOMAIN participants :
       (/\ SubmitActs(c)
        /\ p \notin DOMAIN submit[c].scores \/ submit[c].scores[p].t = "num")
          => \A d \in Pair(scoreDocs, submit[c].eventId, p) :
               d \in DOMAIN scoreDocs' /\ scoreDocs'[d] = scoreDocs[d]
    ]_vars

\* The store operation handleSubmit issued for the participant at index j
\* of its list shows in the score store.
Applied(c, docs, j) ==
  LET s == submit[c]
      p == s.participants[j]
      b == scoreBranch(s.scores, s.existingScores, p)
  IN  /\ b \in {"add", "update"}
        => \E d \in Pair(docs, s.eventId, p) : docs[d].score = parseFloat(s.scores[p])
      /\ b = "delete" => s.existingScores[p] \notin DOMAIN docs

\* C33: each iteration of ScoreEntry.handleSubmit touches the scores of its
\* own participant only; when the operation of the k-th participant (in
\* name order) fails, the store stays as the operations of participants
\* 1..k-1 left it, the save ends there (no operation for a later
\* participant), the error is shown and the view stays on the form; and the
\* score store changes only in a step of a running save.
C33_FailureStopsTheLoop ==
  [][/\ \A c \in Callers :
          SubmitActs(c) =>
            /\ \A d \in DOMAIN scoreDocs \cup DOMAIN scoreDocs' :
                 (d \notin DOMAIN scoreDocs \/ d \notin DOMAIN scoreDocs'
                    \/ scoreDocs'[d] # scoreDocs[d])
                 => (IF d \in DOMAIN scoreDocs THEN scoreDocs[d] ELSE scoreDocs'[d])
                       .participantId = SubmitParticipant(c)
            /\ se'[c].error # ""
                 => /\ scoreDocs' = scoreDocs
                    /\ \A j \in 1..(submit[c].i - 1) : Applied(c, scoreDocs', j)
                    /\ submit'[c].pc = "idle"
                    /\ view'[c] = "add-score" /\ view[c] = "add-score"
     /\ (\A c \in Callers : submit[c].pc # "run" /\ save[c].pc # "write")
          => scoreDocs' = scoreDocs
    ]_vars

\* The save of two typed scores failed at the second participant: the error
\* is shown on the form and the store holds the first score only.
C33_Witness ==
  \E c \in Callers :
    /\ view[c] = "add-score" /\ se[c].error # "" /\ submit[c].pc = "idle"
    /\ \A p \in {"p1", "p2"} :
         HasCandidate(se[c].scores, p) /\ se[c].scores[p].t = "str"
    /\ se[c].existingScores = EmptyMap
    /\ DOMAIN scoreDocs = {1} /\ scoreDocs[1].participantId = "p1"
    /\ scoreDocs[1].score = 4000

\* C34: a scores snapshot delivered to ScoreEntry replaces both local maps:
\* right after it, scores[p] and existingScores[p] are defined exactly for
\* the participants with a record of the event in the snapshot, scores[p] is
\* the score of the record existingScores[p] names, and no typed candidate
\* is left.
C34_SnapshotReplacesCandidates ==
  [][\A c \in Callers :
       scoresSnapshot(c) =>
         LET e == se[c].eventId
             ps == {scoreDocs[d].participantId : d \in scoresQuery(scoreDocs, "eventId", e)}
         IN  /\ DOMAIN se'[c].scores = ps
             /\ DOMAIN se'[c].existingScores = ps
             /\ \A p \in ps :
                  /\ se'[c].existingScores[p] \in Pair(scoreDocs, e, p)
                  /\ se'[c].scores[p] = Num(scoreDocs[se'[c].existingScores[p]].score)
    ]_vars

\* The form shows the error of a failed save although no record was ever
\* created, so the failed operation was the creation of a typed candidate;
\* a snapshot has since emptied the local candidates.
C34_Witness ==
  \E c \in Callers :
    /\ view[c] = "add-score" /\ se[c].error # ""
    /\ nextScoreId = 1 /\ scoreDocs = EmptyMap
    /\ se[c].scores = EmptyMap /\ se[c].existingScores = EmptyMap

\* C35: handleDeleteEvent / handleDeleteParticipant only set up the
\* confirmation modal; closeModal (cancel) leaves the three collections as
\* they are and starts nothing; confirmModal with a delete action pending
\* starts that action, for the document the modal was opened for, and closes
\* the modal, so that the action runs once: a cascade starts in no other
\* step, the deleteDoc of the parent settles once per start, and no event and
\* no participant leaves the store but by that deleteDoc.
C35_DeleteOnlyOnConfirm ==
  [][\A c \in Callers :
       /\ \A kind \in Kinds, id \in DOMAIN InitEvents \cup DOMAIN InitParticipants :
            handleDelete(c, kind, id)
              => /\ storeVars' = storeVars
                 /\ del' = del /\ pending' = pending
       /\ closeModal(c)
            => /\ storeVars' = storeVars
               /\ del' = del /\ pending' = pending
       /\ (confirmModal(c) /\ modal[c].action # NoAction)
            => /\ del'[c].pc = "parent"
               /\ del'[c].kind = modal[c].action.kind /\ del'[c].id = modal[c].action.id
               /\ modal'[c].message = "" /\ modal'[c].action = NoAction
               /\ storeVars' = storeVars
       /\ (del[c].pc = "idle" /\ del'[c].pc # "idle")
            => /\ modal[c].message = "confirm"
               /\ modal[c].action = [kind |-> del'[c].kind, id |-> del'[c].id]
               /\ modal'[c].message = ""
       /\ ParentActs(c) => del'[c].pc # "parent"
       /\ (DOMAIN events' # DOMAIN events \/ DOMAIN participants' # DOMAIN participants)
            => \E b \in Callers :
                 /\ ParentActs(b)
                 /\ DOMAIN Collection(del[b].kind) \ {del[b].id}
                      = IF del[b].kind = "event" THEN DOMAIN events'
                        ELSE DOMAIN participants'
    ]_vars

\* The modal reports the confirmed deletion of event e1, which is gone; the
\* participant is still stored.
C35_Witness ==
  \E c \in Callers :
    /\ modal[c].message = "success" /\ modal[c].subject = [kind |-> "event", id |-> "e1"]
    /\ del[c].pc = "idle"
    /\ "e1" \notin DOMAIN events
    /\ "p1" \in DOMAIN participants

=========================================================================
